---- MODULE Spec2Model ----
(***************************************************************************)
(* Verification model of the traffic router: the UDP session table of      *)
(* tunnel.handleUDPConn, the rule dispatcher tunnel.match with the         *)
(* configuration reload of executor.ApplyConfig, and the DNS resolver      *)
(* (cache, de-duplication, main/fallback exchange).                        *)
(***************************************************************************)
EXTENDS Integers, Sequences, FiniteSets, TLC

(***************************************************************************)
(* Bounds of the model.                                                     *)
(***************************************************************************)
\* number of UDP packets handled concurrently by handleUDPConn
NumPackets == 3

Packets == 1..NumPackets
\* session keys (packet.LocalAddr().String())
Keys == {"k1", "k2"}
\* nil pointer / absent map entry
Nil == 0

VARIABLES
  \* ---- UDP session table (tunnel.handleUDPConn, nat.Table) ----
  pktKey,      \* key of each packet
  pc,          \* position of each packet's handler in handleUDPConn
  natSession,  \* natTable entries under key: the session, or Nil
  natLock,     \* natTable entries under key+"-lock": the cond, or Nil
  cond,        \* the cond returned to each packet by GetOrCreateLock
  loaded,      \* the loaded flag returned to each packet by GetOrCreateLock
  condL,       \* holder of each cond's mutex cond.L, or Nil
  condWait,    \* tasks parked in each cond's notify list
  sessions,    \* session objects created so far (named after their creator)
  fwd,         \* session each packet was handed to by handleUDPToRemote
  \* ---- dispatcher and configuration (tunnel.match, executor.ApplyConfig) ----
  rules,         \* tunnel.rules: the active rule list
  proxies,       \* tunnel.proxies: name -> outbound
  defaultHosts,  \* resolver.DefaultHosts: host -> IP, NoIP when absent
  readers,       \* flows holding configMux.RLock
  rpc,           \* position of ApplyConfig
  newCfg,        \* the configuration ApplyConfig is applying
  mpc,           \* position of each flow's match pass
  md,            \* metadata of each flow
  resolved,      \* match's local resolved
  processFound,  \* match's local processFound
  idx,           \* index of the rule the range loop is at
  retProxy,      \* proxy returned by match
  retRule,       \* index of the rule returned by match, 0 for nil
  retErr,        \* error returned by match / matchScript, NoErr for nil
  seen,          \* history: the metadata each rule's Match was called with
  lookups,       \* history: the IP resolutions and process lookups of each pass
  \* ---- DNS resolver (dns.Resolver) ----
  now,        \* time.Now(), in ticks
  rcfg,       \* the resolver's fallback, policy and fallbackDomainFilters
  lruCache,   \* r.lruCache: question -> entry
  tq,         \* the question of each caller's message
  tpc,        \* position of each task in ExchangeContext / exchangeWithoutCache
  stage,      \* where the function given to group.Do is
  sfLeader,   \* r.group: the task executing each in-flight key, or Nil
  sfJoin,     \* r.group: the tasks waiting on each in-flight key
  joined,     \* the task whose execution each task waits for, or Nil
  rmain,      \* ipExchange: the main group's result
  fret,       \* what the function given to group.Do returned
  tret,       \* what each task's call returned
  tobj,       \* the message object each task's call returned
  shared,     \* the shared flag group.Do returned to each task
  ncall,      \* history: group queries issued by each task
  calls,      \* history: queries sent to each transport group
  staleHit,   \* history: the caller was served an expired entry
  hitEntry,   \* history: the cache entry the caller's lookup found
  hitAt,      \* history: the clock the caller read for the remaining time
  \* ---- Resolver.ResolveIP / resolveIP ----
  rhost,      \* host of each ResolveIP call
  rpcA,       \* position of the call (it runs the A lookup itself)
  rpc6,       \* position of the goroutine that runs the AAAA lookup
  ch,         \* the channel's buffer (capacity 1)
  chClosed,   \* the channel is closed
  lkA,        \* what resolveIP(host, TypeA) returned
  lk6,        \* what resolveIP(host, TypeAAAA) returned
  ripRet,     \* what ResolveIP returned
  nexch,      \* history: ExchangeContext calls made by each lookup
  waited,     \* history: the call reached the channel receive
  \* ---- Resolver.batchExchange and its picker ----
  clients,    \* the transports of the group
  ctxDone,    \* the picker's context: "" while live, else the ctx.Err()
  xpc,        \* position of each transport's goroutine
  xret,       \* what the function given to fast.Go returned for each transport
  pResult,    \* the picker's result
  pFirstErr,  \* the picker's first error
  bpc,        \* position of batchExchange
  bret,       \* what batchExchange returned
  order,      \* history: the transports in the order they returned
  \* ---- tunnel.resolveMetadata and its callers ----
  mode,          \* tunnel.mode
  mitmProxy,     \* tunnel.mitmProxy, NilProxy when unset
  rewriteHosts,  \* tunnel.rewriteHosts
  fpc,           \* position of each flow's handler around resolveMetadata
  scriptOut,     \* history: what scriptMainMatcher.Eval returned
  dialed,        \* history: the outbound each flow was dialed through
  md0,           \* history: the metadata resolveMetadata was called with
  \* ---- preHandleMetadata in handleUDPConn ----
  pmd,           \* metadata of each packet
  enh,           \* the resolver's enhancer: mapping mode, reverse table, pool
  \* ---- dohClient.ExchangeContext ----
  dohM,       \* the caller's query message m, shared by the clients of a group
  dohM0,      \* history: the message as the caller built it
  dohPc,      \* position of each client in ExchangeContext
  dohReq,     \* the request each client put on the wire
  dohRet,     \* what each client's ExchangeContext returned
  cliCtx,     \* client.ExchangeContext: the context, "" while live, else ctx.Err()
  cliPc,      \* where each ExchangeContext call is
  cliG,       \* where the goroutine performing the upstream exchange is
  cliUp,      \* what ExchangeWithConn returned to the goroutine
  cliCh,      \* the result channel ch
  cliConnClosed, \* whether the deferred conn.Close() has run
  cliRet,     \* what ExchangeContext returned
  cmWriter,   \* configMux: whether it is held for writing
  cmReaders,  \* configMux: the tasks holding it for reading
  upc,        \* where UpdateProxies is
  pver,       \* tunnel.proxies: which proxy set it holds (a version number)
  rdSite,     \* the function each reading task runs
  rdPc,       \* where each reading task is
  rdHeld,     \* history: whether the task held the read lock when it read
  rdRaced,    \* history: whether the write lock was held when it read
  rdGot,      \* the proxy set the read gave, 0 before the read
  sniffing,   \* tunnel.sniffing
  hpc,        \* handleTCPConn: where each flow is
  hdefer,     \* the deferred calls of each handleTCPConn, last registered first
  inClosed,   \* whether the inbound connection of each flow is closed
  remoteConn, \* the remote connection of each flow: "none", "open", "closed"
  hwrap,      \* the wrappers put around the remote connection
  hproxy,     \* the kind of outbound resolveMetadata returned
  hcancelled, \* whether the dial context was cancelled
  hpath,      \* history: the path on which handling ended
  ddirect,    \* dualStackDialContext: opt.direct
  dpc,        \* where dualStackDialContext is
  returned,   \* whether the channel returned is closed
  rcPc,       \* where each racer is (indexed by its ipv6 flag)
  rcRes,      \* the result variable of each racer
  primary,    \* the failed result received from the IPv4 racer
  fallbackRes, \* the failed result received from the IPv6 racer (fallback)
  dret,       \* what dualStackDialContext returned
  dorder,     \* history: the racers whose results were received, in order
  running,    \* HealthCheck.running
  hcDone,     \* HealthCheck.done, a channel of capacity 1
  ppc,        \* where each process() call is
  cpc,        \* where the close() call is
  nchecks,    \* history: the periodic checks each loop performed
  lateChecks, \* history: periodic checks performed after close() returned
  updatingGeo,  \* route.updatingGeo
  updateGeoMux, \* route.updateGeoMux: the request holding it, or Nil
  gpc,          \* where each updateGeoDatabases request is
  gresp,        \* the status each request was answered with, 0 before
  upd,          \* the update each request started: "none", "running", "defer", "ended"
  gout,         \* how each update went
  busyAtCheck   \* history: whether an update was running when the request tested the flag

udpVars == <<pktKey, pc, natSession, natLock, cond, loaded, condL, condWait,
             sessions, fwd>>

tunVars == <<rules, proxies, defaultHosts, readers, rpc, newCfg, mpc, md,
             resolved, processFound, idx, retProxy, retRule, retErr, seen,
             lookups>>

dnsVars == <<now, rcfg, lruCache, tq, tpc, stage, sfLeader, sfJoin, joined,
             rmain, fret, tret, tobj, shared, ncall, calls, staleHit,
             hitEntry, hitAt>>

ripVars == <<rhost, rpcA, rpc6, ch, chClosed, lkA, lk6, ripRet, nexch, waited>>

batVars == <<clients, ctxDone, xpc, xret, pResult, pFirstErr, bpc, bret, order>>

modeVars == <<mode, mitmProxy, rewriteHosts, fpc, scriptOut, dialed, md0>>

preVars == <<pmd, enh>>

dohVars == <<dohM, dohM0, dohPc, dohReq, dohRet>>
cliVars == <<cliCtx, cliPc, cliG, cliUp, cliCh, cliConnClosed, cliRet>>
geoVars == <<updatingGeo, updateGeoMux, gpc, gresp, upd, gout, busyAtCheck>>
hcVars == <<running, hcDone, ppc, cpc, nchecks, lateChecks>>
dualVars == <<ddirect, dpc, returned, rcPc, rcRes, primary, fallbackRes, dret,
              dorder>>
tcpVars == <<sniffing, hpc, hdefer, inClosed, remoteConn, hwrap, hproxy,
             hcancelled, hpath>>
lkVars == <<cmWriter, cmReaders, upc, pver, rdSite, rdPc, rdHeld, rdRaced, rdGot>>

vars == <<udpVars, tunVars, dnsVars, ripVars, batVars, modeVars, preVars,
          dohVars, cliVars, lkVars, tcpVars, dualVars, hcVars, geoVars>>

\* what the session table's steps leave alone
notUDP == <<tunVars, dnsVars, ripVars, batVars, modeVars, preVars, dohVars, cliVars, lkVars, tcpVars, dualVars, hcVars, geoVars>>
\* what the dispatcher's and the reload's steps leave alone
notTun == <<udpVars, dnsVars, ripVars, batVars, modeVars, preVars, dohVars, cliVars, lkVars, tcpVars, dualVars, hcVars, geoVars>>
\* what the resolver's steps leave alone
notDNS == <<udpVars, tunVars, ripVars, batVars, modeVars, preVars, dohVars, cliVars, lkVars, tcpVars, dualVars, hcVars, geoVars>>
\* what the steps of ResolveIP leave alone
notRip == <<udpVars, tunVars, dnsVars, batVars, modeVars, preVars, dohVars, cliVars, lkVars, tcpVars, dualVars, hcVars, geoVars>>
\* what the steps around resolveMetadata leave alone, the dispatcher aside
notMode == <<udpVars, dnsVars, ripVars, batVars, preVars, dohVars, cliVars, lkVars, tcpVars, dualVars, hcVars, geoVars>>
\* what preHandleMetadata leaves alone, the session table aside
notPre == <<tunVars, dnsVars, ripVars, batVars, modeVars, dohVars, cliVars, lkVars, tcpVars, dualVars, hcVars, geoVars>>
\* what the steps of the DoH client leave alone
notDoh == <<udpVars, tunVars, dnsVars, ripVars, batVars, modeVars, preVars, cliVars, lkVars, tcpVars, dualVars, hcVars, geoVars>>
\* what the steps on configMux leave alone
notLock == <<udpVars, tunVars, dnsVars, ripVars, batVars, modeVars, preVars, dohVars, cliVars, tcpVars, dualVars, hcVars, geoVars>>
\* what the steps of handleTCPConn leave alone
notTcp == <<udpVars, tunVars, dnsVars, ripVars, batVars, modeVars, preVars, dohVars, cliVars, lkVars, dualVars, hcVars, geoVars>>
\* what the steps of dualStackDialContext leave alone
notDual == <<udpVars, tunVars, dnsVars, ripVars, batVars, modeVars, preVars, dohVars, cliVars, lkVars, tcpVars, hcVars, geoVars>>
\* what the steps of HealthCheck leave alone
notHC == <<udpVars, tunVars, dnsVars, ripVars, batVars, modeVars, preVars, dohVars, cliVars, lkVars, tcpVars, dualVars, geoVars>>
\* what the steps of updateGeoDatabases leave alone
notGeo == <<udpVars, tunVars, dnsVars, ripVars, batVars, modeVars, preVars, dohVars, cliVars, lkVars, tcpVars, dualVars, hcVars>>
\* what the steps of client.ExchangeContext leave alone
notCli == <<udpVars, tunVars, dnsVars, ripVars, batVars, modeVars, preVars, dohVars, lkVars, tcpVars, dualVars, hcVars, geoVars>>
\* what the steps of batchExchange leave alone
notBat == <<udpVars, tunVars, dnsVars, ripVars, modeVars, preVars, dohVars, cliVars, lkVars, tcpVars, dualVars, hcVars, geoVars>>

(***************************************************************************)
(* Data of the dispatcher: metadata, rules, outbounds, configurations.      *)
(***************************************************************************)
\* number of flows dispatched concurrently
NumFlows == 2
\* longest rule list drawn
MaxRules == 3

Flows == 1..NumFlows
\* netip.Addr{}: the invalid address
NoIP == ""
\* a nil C.Proxy
NilProxy == "<nil>"
\* a nil error
NoErr == ""

Hosts == {"example.com", "other.com"}
\* what resolver.ResolveIP answers for a host when it succeeds
DNSAnswer == [h \in Hosts |-> IF h = "example.com" THEN "1.1.1.1" ELSE "8.8.8.8"]

\* the metadata of a flow that is not there
NoMetadata ==
  [NetWork |-> "TCP", Host |-> "", DstIP |-> NoIP, Process |-> "",
   Type |-> "SOCKS5", DstPort |-> "443"]

\* C.Metadata, the fields the dispatcher reads and writes
Metadatas ==
  {[NetWork |-> n, Host |-> h, DstIP |-> NoIP, Process |-> "",
    Type |-> "SOCKS5", DstPort |-> "443"] :
     n \in {"TCP", "UDP"}, h \in Hosts}
  \cup
  {[NetWork |-> n, Host |-> "", DstIP |-> ip, Process |-> "",
    Type |-> "SOCKS5", DstPort |-> "443"] :
     n \in {"TCP", "UDP"}, ip \in {"1.1.1.1", "8.8.8.8"}}

Rule(t, payload, adapter, noResolve) ==
  [type |-> t, payload |-> payload, adapter |-> adapter, noResolve |-> noResolve]

\* the rules that rule lists are drawn from
RuleUniverse ==
  { Rule("Domain", "example.com", "P1", FALSE),
    Rule("Domain", "other.com", "P2", FALSE),
    Rule("IPCIDR", "1.1.1.1", "P1", FALSE),
    Rule("IPCIDR", "1.1.1.1", "P2", TRUE),
    Rule("Process", "curl", "P2", FALSE),
    Rule("MATCH", "", "DIRECT", FALSE),
    Rule("MATCH", "", "P1", FALSE) }

RuleLists == UNION {[1..n -> RuleUniverse] : n \in 0..MaxRules}

\* an outbound: SupportUDP()
Outbound(udp) == [udp |-> udp]

\* the proxy sets drawn: all usable; P1 absent; P1 without UDP; P1 absent and
\* P2 without UDP
ProxySets ==
  { [n \in {"P1", "P2", "DIRECT", "REJECT"} |-> Outbound(TRUE)],
    [n \in {"P2", "DIRECT", "REJECT"} |-> Outbound(TRUE)],
    [n \in {"P1", "P2", "DIRECT", "REJECT"} |-> Outbound(n # "P1")],
    [n \in {"P2", "DIRECT", "REJECT"} |-> Outbound(n # "P2")] }

\* the static hosts tables drawn: empty, or one entry
HostsTables ==
  { [h \in Hosts \cup {""} |-> NoIP],
    [h \in Hosts \cup {""} |-> IF h = "other.com" THEN "10.0.0.1" ELSE NoIP] }

\* two configurations a reload switches between
CfgA ==
  [rules |-> <<Rule("Domain", "example.com", "P1", FALSE),
               Rule("MATCH", "", "DIRECT", FALSE)>>,
   proxies |-> [n \in {"P1", "DIRECT", "REJECT"} |-> Outbound(TRUE)]]
CfgB ==
  [rules |-> <<Rule("Domain", "example.com", "P2", FALSE)>>,
   proxies |-> [n \in {"P2", "DIRECT", "REJECT"} |-> Outbound(TRUE)]]
Configs == {CfgA, CfgB}

\* the dispatcher left out of a specification: its variables hold nothing,
\* except the hosts table, which preHandleMetadata reads (an empty table).
\* Each specification steps one subsystem and leaves the others parked
ParkedTun ==
  /\ rules = Nil
  /\ proxies = Nil
  /\ defaultHosts = [h \in Hosts \cup {""} |-> NoIP]
  /\ readers = Nil
  /\ rpc = Nil
  /\ newCfg = Nil
  /\ mpc = Nil
  /\ md = Nil
  /\ resolved = Nil
  /\ processFound = Nil
  /\ idx = Nil
  /\ retProxy = Nil
  /\ retRule = Nil
  /\ retErr = Nil
  /\ seen = Nil
  /\ lookups = Nil

(***************************************************************************)
(* Data of the resolver: questions, messages, transport groups.             *)
(***************************************************************************)
\* number of concurrent callers of Resolver.ExchangeContext
NumCallers == 2
\* the clock stops here (in ticks)
MaxTime == 2
\* the clock counts half seconds: ticks per time.Second
TicksPerSecond == 2

Callers == 1..NumCallers
\* task c is caller c; task NumCallers + c is the refresh goroutine started
\* by caller c
Tasks == 1..(2 * NumCallers)
Owner(t) == IF t > NumCallers THEN t - NumCallers ELSE t
Refresher(c) == NumCallers + c

\* the questions asked, all for one name: an address question and another
Questions == {"A", "TXT"}
Groups == {"main", "fallback", "policy"}

\* the IPs the fallbackIPFilters match
FlaggedIPs == {"6.6.6.6"}

\* a resource record: its TTL, and its address when it is an A/AAAA record
RR(ip, ttl) == [ip |-> ip, ttl |-> ttl]

\* a result <<msg, err>>: by and call tell which group's answer it is and
\* which task's execution asked for it
Result(err, by, call, answer, ns) ==
  [err |-> err, by |-> by, call |-> call, Answer |-> answer, Ns |-> ns,
   Extra |-> <<>>]

NoResult == Result(TRUE, "", 0, <<>>, <<>>)

\* what one query of a transport group can come back with for question q
Outcomes(q, by, call) ==
  IF q = "A"
    THEN { Result(TRUE, by, call, <<>>, <<>>),
           Result(FALSE, by, call, <<RR("6.6.6.6", 2)>>, <<>>),
           Result(FALSE, by, call, <<RR("8.8.8.8", 2)>>, <<>>),
           Result(FALSE, by, call, <<>>, <<RR(NoIP, 2)>>) }
    ELSE { Result(TRUE, by, call, <<>>, <<>>),
           Result(FALSE, by, call, <<>>, <<>>),
           Result(FALSE, by, call, <<RR(NoIP, 2), RR(NoIP, 1)>>, <<>>) }

\* a message object on the heap, named after the place that allocated it: a
\* transport's response to the query that task n sent to group by, or the
\* copy that Msg.Copy() made at site for it or for task n
Obj(site, by, n) == [site |-> site, by |-> by, n |-> n]
\* no message (nil)
NilObj == Obj("", "", 0)
\* the object a transport group's result res is
ObjOf(res) == IF res.err THEN NilObj ELSE Obj("transport", res.by, res.call)

\* a cache entry; has is false for an absent key; at is history, the time of
\* the insertion
NoEntry ==
  [has |-> FALSE, msg |-> NoResult, obj |-> NilObj, expire |-> 0, at |-> 0]

\* the resolver at rest (no caller)
ParkedDNS ==
  /\ now = Nil
  /\ rcfg = Nil
  /\ lruCache = Nil
  /\ tq = Nil
  /\ tpc = Nil
  /\ stage = Nil
  /\ sfLeader = Nil
  /\ sfJoin = Nil
  /\ joined = Nil
  /\ rmain = Nil
  /\ fret = Nil
  /\ tret = Nil
  /\ tobj = Nil
  /\ shared = Nil
  /\ ncall = Nil
  /\ calls = Nil
  /\ staleHit = Nil
  /\ hitEntry = Nil
  /\ hitAt = Nil

\* number of concurrent calls of Resolver.ResolveIP
NumResolves == 2

Resolves == 1..NumResolves
\* the hosts resolved: three literals and a name
ResolveHosts == {"1.2.3.4", "::1", "::ffff:1.2.3.4", "example.com"}
\* <<ip, err>> as returned by resolveIP and ResolveIP
IPResult(ip, err) == [ip |-> ip, err |-> err]

\* no ResolveIP call
ParkedRip ==
  /\ rhost = Nil
  /\ rpcA = Nil
  /\ rpc6 = Nil
  /\ ch = Nil
  /\ chClosed = Nil
  /\ lkA = Nil
  /\ lk6 = Nil
  /\ ripRet = Nil
  /\ nexch = Nil
  /\ waited = Nil

\* number of transports a group is drawn from
NumTransports == 3

Transports == 1..NumTransports
\* a response: the transport it came from and its response code
Msg(from, rcode) == [from |-> from, rcode |-> rcode]
\* a nil *D.Msg
NilMsg == Msg(0, "")
\* <<msg, err>>
MsgResult(msg, err) == [msg |-> msg, err |-> err]
\* the error of fmt.Errorf("%w, first error: %s", err, first): its parts
WrapErr(err, first) == [err |-> err, first |-> first]

\* no batchExchange call
ParkedBat ==
  /\ clients = Nil
  /\ ctxDone = Nil
  /\ xpc = Nil
  /\ xret = Nil
  /\ pResult = Nil
  /\ pFirstErr = Nil
  /\ bpc = Nil
  /\ bret = Nil
  /\ order = Nil

\* the operating modes
Modes == {"Direct", "Global", "Script", "Rule"}
\* a nil *trie.DomainTrie
NoTrie == [nil |-> TRUE, hosts |-> {}]
\* what scriptMainMatcher.Eval returns: an outbound name or an error
ScriptResult(name, err) == [name |-> name, err |-> err]

\* no resolveMetadata call
ParkedMode ==
  /\ mode = Nil
  /\ mitmProxy = Nil
  /\ rewriteHosts = Nil
  /\ fpc = Nil
  /\ scriptOut = Nil
  /\ dialed = Nil
  /\ md0 = Nil

\* the addresses packets are sent to: one of the fake-IP pool, one outside
PacketIPs == {"198.18.0.5", "8.8.8.8"}
\* the metadata of a packet: the fields preHandleMetadata reads and writes
PacketMetadata(host, ip) == [Host |-> host, DstIP |-> ip, DNSMode |-> "normal"]

\* no packet before the session table, mapping mode off
ParkedPre ==
  /\ pmd = Nil
  /\ enh = Nil

\* number of DoH clients handed the same query message
NumDohClients == 2
DohClients == 1..NumDohClients
\* message IDs: zero, small ones, the largest 16-bit value
MsgIds == {0, 1, 2, 65535}
\* a DNS message seen by the DoH client: its ID, question and answer
DohMsg(id, q, answer) == [Id |-> id, Question |-> q, Answer |-> answer]
NilDohMsg == DohMsg(0, "", "<nil>")
\* no DoH exchange
ParkedDoH ==
  /\ dohM = Nil
  /\ dohM0 = Nil
  /\ dohPc = Nil
  /\ dohReq = Nil
  /\ dohRet = Nil

\* number of client.ExchangeContext calls
NumExchanges == 2

Exchanges == 1..NumExchanges

\* no client.ExchangeContext call
ParkedCli ==
  /\ cliCtx = Nil
  /\ cliPc = Nil
  /\ cliG = Nil
  /\ cliUp = Nil
  /\ cliCh = Nil
  /\ cliConnClosed = Nil
  /\ cliRet = Nil

\* number of tasks reading the proxy set
NumReaders == 2
\* number of UpdateProxies calls
NumReloads == 2

ProxyReaders == 1..NumReaders
\* the functions that read tunnel.proxies to choose an outbound
ReadSites == {"resolveMetadata", "match", "matchScript",
              "dialContextWithProxyAdapter"}

\* nobody reads or replaces the proxy set
ParkedLock ==
  /\ cmWriter = Nil
  /\ cmReaders = Nil
  /\ upc = Nil
  /\ pver = Nil
  /\ rdSite = Nil
  /\ rdPc = Nil
  /\ rdHeld = Nil
  /\ rdRaced = Nil
  /\ rdGot = Nil

\* number of TCP flows handled
NumConns == 2

Conns == 1..NumConns

\* no TCP flow
ParkedTcp ==
  /\ sniffing = Nil
  /\ hpc = Nil
  /\ hdefer = Nil
  /\ inClosed = Nil
  /\ remoteConn = Nil
  /\ hwrap = Nil
  /\ hproxy = Nil
  /\ hcancelled = Nil
  /\ hpath = Nil

\* the two racers of dualStackDialContext, named by their ipv6 flag
Racers == BOOLEAN
\* a dialResult; conn is "none" for nil, else whether the connection is
\* still open
DialResult(c, e, r, v6, d) ==
  [conn |-> c, error |-> e, resolved |-> r, ipv6 |-> v6, done |-> d]
\* the zero dialResult
NoDialResult == DialResult("none", NoErr, FALSE, FALSE, FALSE)
\* <<conn, err>> as dualStackDialContext returns it: by names the racer whose
\* connection it is
DialReturn(by, err) == [by |-> by, err |-> err]

\* no dualStackDialContext call
ParkedDual ==
  /\ ddirect = Nil
  /\ dpc = Nil
  /\ returned = Nil
  /\ rcPc = Nil
  /\ rcRes = Nil
  /\ primary = Nil
  /\ fallbackRes = Nil
  /\ dret = Nil
  /\ dorder = Nil

\* number of process() calls on one HealthCheck
NumProcessCalls == 2
\* periodic checks a loop is followed for
MaxChecks == 2

ProcessCalls == 1..NumProcessCalls

\* a HealthCheck nobody calls
ParkedHC ==
  /\ running = Nil
  /\ hcDone = Nil
  /\ ppc = Nil
  /\ cpc = Nil
  /\ nchecks = Nil
  /\ lateChecks = Nil

\* number of requests to updateGeoDatabases
NumRequests == 3

Requests == 1..NumRequests

\* no request to updateGeoDatabases
ParkedGeo ==
  /\ updatingGeo = Nil
  /\ updateGeoMux = Nil
  /\ gpc = Nil
  /\ gresp = Nil
  /\ upd = Nil
  /\ gout = Nil
  /\ busyAtCheck = Nil

\* the session table at rest (no packet)
ParkedUDP ==
  /\ pktKey = Nil
  /\ pc = Nil
  /\ natSession = Nil
  /\ natLock = Nil
  /\ cond = Nil
  /\ loaded = Nil
  /\ condL = Nil
  /\ condWait = Nil
  /\ sessions = Nil
  /\ fwd = Nil

(***************************************************************************)
(* nat.Table: a concurrent map; every operation is atomic.                  *)
(***************************************************************************)
\* Table.Get(key)
natTableGet(k) == natSession[k]

\* Table.GetOrCreateLock(key): <<cond, loaded>>; a new cond is named after
\* the task that stored it
natTableGetOrCreateLock(k, p) ==
  IF natLock[k] = Nil THEN <<p, FALSE>> ELSE <<natLock[k], TRUE>>

(***************************************************************************)
(* handleUDPConn, one action per step of the handler of packet p.           *)
(***************************************************************************)
\* handle(): look the session up and forward the packet through it
handle(p) ==
  fwd' = [fwd EXCEPT ![p] = natTableGet(pktKey[p])]

\* lines 260-271: the first handle(); return when the session exists
FirstLookup(p) ==
  /\ pc[p] = "start"
  /\ IF natTableGet(pktKey[p]) # Nil
       THEN /\ handle(p)
            /\ pc' = [pc EXCEPT ![p] = "done"]
       ELSE /\ pc' = [pc EXCEPT ![p] = "lock"]
            /\ UNCHANGED fwd
  /\ UNCHANGED <<pktKey, natSession, natLock, cond, loaded, condL, condWait,
                 sessions>>
  /\ UNCHANGED notUDP

\* mutant: the goroutine ignores loaded and always runs the creation path
GetOrCreateLockIgnoreLoaded(p) ==
  /\ pc[p] = "lock"
  /\ LET r == natTableGetOrCreateLock(pktKey[p], p) IN
       /\ cond' = [cond EXCEPT ![p] = r[1]]
       /\ loaded' = [loaded EXCEPT ![p] = r[2]]
       /\ natLock' = [natLock EXCEPT ![pktKey[p]] = r[1]]
       /\ pc' = [pc EXCEPT ![p] = "resolve"]
  /\ UNCHANGED <<pktKey, natSession, condL, condWait, sessions, fwd>>
  /\ UNCHANGED notUDP

\* lines 273-277: claim the in-progress marker and start the goroutine, which
\* branches on loaded
GetOrCreateLock(p) ==
  /\ pc[p] = "lock"
  /\ LET r == natTableGetOrCreateLock(pktKey[p], p) IN
       /\ cond' = [cond EXCEPT ![p] = r[1]]
       /\ loaded' = [loaded EXCEPT ![p] = r[2]]
       /\ natLock' = [natLock EXCEPT ![pktKey[p]] = r[1]]
       /\ pc' = [pc EXCEPT ![p] = IF r[2] THEN "wlock" ELSE "resolve"]
  /\ UNCHANGED <<pktKey, natSession, condL, condWait, sessions, fwd>>
  /\ UNCHANGED notUDP

\* line 278: cond.L.Lock()
WaiterLock(p) ==
  /\ pc[p] = "wlock"
  /\ condL[cond[p]] = Nil
  /\ condL' = [condL EXCEPT ![cond[p]] = p]
  /\ pc' = [pc EXCEPT ![p] = "wwait"]
  /\ UNCHANGED <<pktKey, natSession, natLock, cond, loaded, condWait,
                 sessions, fwd>>
  /\ UNCHANGED notUDP

\* line 279: cond.Wait() enters the notify list and releases cond.L
WaiterWait(p) ==
  /\ pc[p] = "wwait"
  /\ condWait' = [condWait EXCEPT ![cond[p]] = @ \cup {p}]
  /\ condL' = [condL EXCEPT ![cond[p]] = Nil]
  /\ pc' = [pc EXCEPT ![p] = "wparked"]
  /\ UNCHANGED <<pktKey, natSession, natLock, cond, loaded, sessions, fwd>>
  /\ UNCHANGED notUDP

\* line 279: cond.Wait() returns once notified, with cond.L held again
WaiterWake(p) ==
  /\ pc[p] = "wparked"
  /\ p \notin condWait[cond[p]]
  /\ condL[cond[p]] = Nil
  /\ condL' = [condL EXCEPT ![cond[p]] = p]
  /\ pc' = [pc EXCEPT ![p] = "whandle"]
  /\ UNCHANGED <<pktKey, natSession, natLock, cond, loaded, condWait,
                 sessions, fwd>>
  /\ UNCHANGED notUDP

\* mutant: a waiter that finds no session starts a creation attempt
WaiterHandleRetries(p) ==
  /\ pc[p] = "whandle"
  /\ handle(p)
  /\ condL' = [condL EXCEPT ![cond[p]] = Nil]
  /\ pc' = [pc EXCEPT ![p] = IF natTableGet(pktKey[p]) = Nil THEN "lock" ELSE "done"]
  /\ UNCHANGED <<pktKey, natSession, natLock, cond, loaded, condWait,
                 sessions>>
  /\ UNCHANGED notUDP

\* lines 280-282: handle() once, cond.L.Unlock(), return
WaiterHandle(p) ==
  /\ pc[p] = "whandle"
  /\ handle(p)
  /\ condL' = [condL EXCEPT ![cond[p]] = Nil]
  /\ pc' = [pc EXCEPT ![p] = "done"]
  /\ UNCHANGED <<pktKey, natSession, natLock, cond, loaded, condWait,
                 sessions>>
  /\ UNCHANGED notUDP

\* mutant: the error return skips the deferred release
ClaimantResolveNoRelease(p) ==
  /\ pc[p] = "resolve"
  /\ \E ok \in BOOLEAN :
       pc' = [pc EXCEPT ![p] = IF ok THEN "listen" ELSE "done"]
  /\ UNCHANGED <<pktKey, natSession, natLock, cond, loaded, condL, condWait,
                 sessions, fwd>>
  /\ UNCHANGED notUDP

\* lines 290-295: resolveMetadata; on error the deferred release runs
ClaimantResolve(p) ==
  /\ pc[p] = "resolve"
  /\ \E ok \in BOOLEAN :
       pc' = [pc EXCEPT ![p] = IF ok THEN "listen" ELSE "release"]
  /\ UNCHANGED <<pktKey, natSession, natLock, cond, loaded, condL, condWait,
                 sessions, fwd>>
  /\ UNCHANGED notUDP

\* lines 297-309: proxy.ListenPacketContext; on success a new session object
ClaimantListen(p) ==
  /\ pc[p] = "listen"
  /\ \E ok \in BOOLEAN :
       IF ok
         THEN /\ sessions' = sessions \cup {p}
              /\ pc' = [pc EXCEPT ![p] = "set"]
         ELSE /\ pc' = [pc EXCEPT ![p] = "release"]
              /\ UNCHANGED sessions
  /\ UNCHANGED <<pktKey, natSession, natLock, cond, loaded, condL, condWait,
                 fwd>>
  /\ UNCHANGED notUDP

\* mutant: the session is not installed
ClaimantSetNothing(p) ==
  /\ pc[p] = "set"
  /\ pc' = [pc EXCEPT ![p] = "chandle"]
  /\ UNCHANGED <<pktKey, natSession, natLock, cond, loaded, condL, condWait,
                 sessions, fwd>>
  /\ UNCHANGED notUDP

\* line 327: natTable.Set(key, pc)
ClaimantSet(p) ==
  /\ pc[p] = "set"
  /\ natSession' = [natSession EXCEPT ![pktKey[p]] = p]
  /\ pc' = [pc EXCEPT ![p] = "chandle"]
  /\ UNCHANGED <<pktKey, natLock, cond, loaded, condL, condWait, sessions,
                 fwd>>
  /\ UNCHANGED notUDP

\* line 328: handle()
ClaimantHandle(p) ==
  /\ pc[p] = "chandle"
  /\ handle(p)
  /\ pc' = [pc EXCEPT ![p] = "release"]
  /\ UNCHANGED <<pktKey, natSession, natLock, cond, loaded, condL, condWait,
                 sessions>>
  /\ UNCHANGED notUDP

\* line 286 (deferred): natTable.Delete(lockKey)
ClaimantDelete(p) ==
  /\ pc[p] = "release"
  /\ natLock' = [natLock EXCEPT ![pktKey[p]] = Nil]
  /\ pc' = [pc EXCEPT ![p] = "broadcast"]
  /\ UNCHANGED <<pktKey, natSession, cond, loaded, condL, condWait,
                 sessions, fwd>>
  /\ UNCHANGED notUDP

\* line 287 (deferred): cond.Broadcast() empties the notify list
ClaimantBroadcast(p) ==
  /\ pc[p] = "broadcast"
  /\ condWait' = [condWait EXCEPT ![cond[p]] = {}]
  /\ pc' = [pc EXCEPT ![p] = "done"]
  /\ UNCHANGED <<pktKey, natSession, natLock, cond, loaded, condL,
                 sessions, fwd>>
  /\ UNCHANGED notUDP

InitUDP ==
  /\ pktKey \in [Packets -> Keys]
  /\ pc = [p \in Packets |-> "start"]
  /\ natSession = [k \in Keys |-> Nil]
  /\ natLock = [k \in Keys |-> Nil]
  /\ cond = [p \in Packets |-> Nil]
  /\ loaded = [p \in Packets |-> FALSE]
  /\ condL = [p \in Packets |-> Nil]
  /\ condWait = [p \in Packets |-> {}]
  /\ sessions = {}
  /\ fwd = [p \in Packets |-> Nil]
  /\ ParkedTun
  /\ ParkedDNS
  /\ ParkedRip
  /\ ParkedBat
  /\ ParkedMode
  /\ ParkedPre
  /\ ParkedDoH
  /\ ParkedCli
  /\ ParkedLock
  /\ ParkedTcp
  /\ ParkedDual
  /\ ParkedHC
  /\ ParkedGeo

NextUDP ==
  \E p \in Packets :
    \/ FirstLookup(p)
    \/ GetOrCreateLock(p)
    \/ WaiterLock(p)
    \/ WaiterWait(p)
    \/ WaiterWake(p)
    \/ WaiterHandle(p)
    \/ ClaimantResolve(p)
    \/ ClaimantListen(p)
    \/ ClaimantSet(p)
    \/ ClaimantHandle(p)
    \/ ClaimantDelete(p)
    \/ ClaimantBroadcast(p)

SpecUDP == InitUDP /\ [][NextUDP]_vars

(***************************************************************************)
(* Session table properties.                                                *)
(***************************************************************************)
\* packets of key k whose goroutine claimed the marker and has not yet
\* deleted it (tunnel.go lines 274-286)
Creating(k) ==
  {p \in Packets : pktKey[p] = k /\
                   pc[p] \in {"resolve", "listen", "set", "chandle", "release"}}

\* C1: for packets that share a key, at most one session object is ever
\* created and every forwarded packet goes through that one session.
C1_OneSessionPerKey ==
  /\ \A k \in Keys : Cardinality({s \in sessions : pktKey[s] = k}) <= 1
  /\ \A p, q \in Packets :
       (pktKey[p] = pktKey[q] /\ fwd[p] # Nil /\ fwd[q] # Nil)
         => fwd[p] = fwd[q]

\* C2: at most one creation attempt is in flight per session key: no two
\* tasks are both between claiming the marker and deleting it.
C2_OneCreationInFlight ==
  \A k \in Keys : Cardinality(Creating(k)) <= 1

\* a creation attempt is running while another task of the same key has seen
\* the marker claimed and sleeps in cond.Wait
C2_Witness ==
  \E p, q \in Packets :
    /\ p # q /\ pktKey[p] = pktKey[q]
    /\ pc[p] = "listen" /\ cond[q] = p /\ loaded[q]
    /\ pc[q] = "wparked"

\* C3: a task that saw the marker claimed is released once the claimant's
\* attempt has finished: no task stays parked in cond.Wait, unnotified, on a
\* cond whose claimant has already broadcast and returned (nobody else ever
\* broadcasts on that cond).
C3_WaiterReleased ==
  \A p \in Packets :
    (pc[p] = "wparked" /\ p \in condWait[cond[p]]) => pc[cond[p]] # "done"

\* packet p's goroutine took the creation path (loaded was false)
Claimant(p) == cond[p] = p /\ ~loaded[p]

\* packet q's goroutine took the waiting path on the cond of claimant p
WaiterOf(q, p) == cond[q] = p /\ loaded[q]

\* the creation attempt of claimant p is over (its deferred release has
\* started) and created no session
FailedAttempt(p) ==
  Claimant(p) /\ p \notin sessions /\ pc[p] \in {"release", "broadcast", "done"}

\* the marker of key k and the claimant that stored it agree
MarkerOnlyWhileCreating ==
  /\ \A k \in Keys :
       natLock[k] # Nil =>
         /\ pktKey[natLock[k]] = k
         /\ Claimant(natLock[k])
         /\ natLock[k] \in Creating(k)
  /\ \A p \in Packets :
       (Claimant(p) /\ pc[p] \in {"broadcast", "done"}) =>
         natLock[pktKey[p]] # p

\* C24: the marker of a key is present only while the claimant that stored
\* it is between its claim and its deferred release; a claimant's attempt
\* ends, after a dispatch error, a dial error or a success alike, only by
\* deleting its marker and then broadcasting, which empties the cond's wait
\* list: no finished claimant leaves its marker behind.
C24_MarkerRemovedWhenAttemptEnds ==
  [][/\ MarkerOnlyWhileCreating
     /\ MarkerOnlyWhileCreating'
     /\ \A p \in Packets :
          /\ (Claimant(p) /\ pc[p] \in {"resolve", "listen", "chandle"}
                /\ pc'[p] \notin {"resolve", "listen", "set", "chandle"})
               => pc'[p] = "release"
          /\ (pc[p] = "release" /\ pc'[p] # "release")
               => pc'[p] = "broadcast" /\ natLock'[pktKey[p]] = Nil
          /\ (Claimant(p) /\ pc[p] # "done" /\ pc'[p] = "done")
               => pc[p] = "broadcast" /\ condWait'[p] = {}]_vars

\* a dial or dispatch error ended an attempt while a waiter was parked: the
\* marker is gone, no session was installed, the waiter has been notified
C24_Witness ==
  \E p, q \in Packets :
    /\ FailedAttempt(p) /\ pc[p] = "done"
    /\ natLock[pktKey[p]] = Nil /\ natSession[pktKey[p]] = Nil
    /\ WaiterOf(q, p) /\ pc[q] = "wparked" /\ q \notin condWait[p]

C26_WokenWaiterFindsNothing ==
  \A p \in Packets :
    FailedAttempt(p) =>
      /\ \A k \in Keys : natSession[k] # p
      /\ \A q \in Packets :
           (WaiterOf(q, p) /\ pc[q] = "done") => fwd[q] = Nil

\* C26 amended: a failed attempt installs no session; a waiter never starts
\* a creation attempt and never waits a second time; a waiter woken by the
\* failed attempt looks up once and drops its packet, unless a later
\* attempt of another packet has installed a session by then, through which
\* the packet is forwarded.
C26_WokenWaiterLooksUpOnce ==
  /\ \A p \in Packets :
       FailedAttempt(p) =>
         /\ \A k \in Keys : natSession[k] # p
         /\ \A q \in Packets :
              (WaiterOf(q, p) /\ pc[q] = "done") =>
                \/ fwd[q] = Nil
                \/ /\ fwd[q] \in sessions \ {p, q}
                   /\ Claimant(fwd[q])
                   /\ pktKey[fwd[q]] = pktKey[q]
  /\ \A q \in Packets :
       loaded[q] =>
         /\ pc[q] \in {"wlock", "wwait", "wparked", "whandle", "done"}
         /\ q \notin sessions
         /\ \A k \in Keys : natLock[k] # q /\ natSession[k] # q
         /\ pc[q] \in {"whandle", "done"} => q \notin condWait[cond[q]]
         /\ pc[q] # "done" => fwd[q] = Nil

\* a waiter woken by a failed attempt found nothing and dropped its packet
C26_Witness ==
  \E p, q \in Packets :
    /\ FailedAttempt(p) /\ pc[p] = "done"
    /\ WaiterOf(q, p) /\ pc[q] = "done" /\ fwd[q] = Nil
    /\ natSession[pktKey[q]] = Nil

(***************************************************************************)
(* Rules (package rules).                                                   *)
(***************************************************************************)
\* mutant: the comparison of Domain.Match inverted
DomainMatchInverted(r, m) == m.Host # r.payload

\* Domain.Match
DomainMatch(r, m) == m.Host = r.payload

\* IPCIDR.Match: the destination IP is set and lies in the prefix
IPCIDRMatch(r, m) == m.DstIP # NoIP /\ m.DstIP = r.payload

\* Process.Match
ProcessMatch(r, m) == m.Process = r.payload

\* rule.Match(metadata)
RuleMatch(r, m) ==
  CASE r.type = "Domain" -> DomainMatch(r, m)
    [] r.type = "IPCIDR" -> IPCIDRMatch(r, m)
    [] r.type = "Process" -> ProcessMatch(r, m)
    [] r.type = "MATCH" -> TRUE

\* rule.ShouldResolveIP()
ShouldResolveIP(r) == r.type = "IPCIDR" /\ ~r.noResolve

\* rule.ShouldFindProcess()
ShouldFindProcess(r) == r.type = "Process"

(***************************************************************************)
(* tunnel.match, one action per step of the pass of flow f.                 *)
(***************************************************************************)
\* a resolver.ResolveIP or P.FindProcessName call made by the loop body of
\* rule number at, and whether it returned without error
Lookup(kind, at, ok) == [kind |-> kind, at |-> at, ok |-> ok]

\* mutant: the rule is not asked whether it needs the IP
shouldResolveIPAnyRule(r, m) == m.Host # "" /\ m.DstIP = NoIP

\* shouldResolveIP(rule, metadata)
shouldResolveIP(r, m) == ShouldResolveIP(r) /\ m.Host # "" /\ m.DstIP = NoIP

\* mutant: the ok of the proxies lookup is ignored
matchDecideIgnoreOk(r, m) ==
  IF RuleMatch(r, m)
    THEN IF r.adapter \in DOMAIN proxies /\ m.NetWork = "UDP"
              /\ ~proxies[r.adapter].udp
           THEN "continue"
           ELSE "return"
    ELSE "continue"

\* lines 443-455: what the loop body does with rule r once the metadata is
\* prepared: return its adapter, or go on to the next rule
matchDecide(r, m) ==
  IF RuleMatch(r, m)
    THEN IF r.adapter \notin DOMAIN proxies
           THEN "continue"
           ELSE IF m.NetWork = "UDP" /\ ~proxies[r.adapter].udp
                  THEN "continue"
                  ELSE "return"
    ELSE "continue"

\* proxies[name], nil when absent
proxyOf(name) == IF name \in DOMAIN proxies THEN name ELSE NilProxy

\* lines 402-413: RLock, then the static hosts lookup
MatchStart(f) ==
  /\ mpc[f] = "start"
  /\ readers' = readers \cup {f}
  /\ IF defaultHosts[md[f].Host] # NoIP
       THEN /\ md' = [md EXCEPT ![f].DstIP = defaultHosts[md[f].Host]]
            /\ resolved' = [resolved EXCEPT ![f] = TRUE]
       ELSE UNCHANGED <<md, resolved>>
  /\ mpc' = [mpc EXCEPT ![f] = "rules"]
  /\ UNCHANGED <<rules, proxies, defaultHosts, rpc, newCfg, processFound, idx,
                 retProxy, retRule, retErr, seen,
                 lookups>>
  /\ UNCHANGED notTun

\* mutant: a failed resolution ends the pass with the error
MatchRuleAbortOnResolveError(f) ==
  /\ mpc[f] = "rules"
  /\ idx[f] <= Len(rules)
  /\ LET r == rules[idx[f]]
         doResolve == ~resolved[f] /\ shouldResolveIP(r, md[f])
         doProcess == ~processFound[f] /\ ShouldFindProcess(r)
     IN \E ip \in (IF doResolve THEN {NoIP, DNSAnswer[md[f].Host]} ELSE {NoIP}),
           path \in (IF doProcess THEN {"", "curl"} ELSE {""}) :
          LET m1 == IF doResolve /\ ip # NoIP
                      THEN [md[f] EXCEPT !.DstIP = ip] ELSE md[f]
              m2 == IF doProcess /\ path # ""
                      THEN [m1 EXCEPT !.Process = path] ELSE m1
              failed == doResolve /\ ip = NoIP
          IN /\ md' = [md EXCEPT ![f] = m2]
             /\ resolved' = [resolved EXCEPT ![f] = @ \/ doResolve]
             /\ processFound' = [processFound EXCEPT ![f] = @ \/ doProcess]
             /\ seen' = [seen EXCEPT ![f] = IF failed THEN @ ELSE Append(@, m2)]
             /\ lookups' = [lookups EXCEPT ![f] =
                  @ \o (IF doResolve THEN <<Lookup("ip", idx[f], ip # NoIP)>> ELSE <<>>)
                    \o (IF doProcess THEN <<Lookup("process", idx[f], path # "")>> ELSE <<>>)]
             /\ IF failed \/ matchDecide(r, m2) = "return"
                  THEN /\ retProxy' = [retProxy EXCEPT ![f] =
                              IF failed THEN NilProxy ELSE proxyOf(r.adapter)]
                       /\ retRule' = [retRule EXCEPT ![f] = IF failed THEN 0 ELSE idx[f]]
                       /\ retErr' = [retErr EXCEPT ![f] =
                              IF failed THEN "resolve error" ELSE NoErr]
                       /\ mpc' = [mpc EXCEPT ![f] = "done"]
                       /\ readers' = readers \ {f}
                       /\ UNCHANGED idx
                  ELSE /\ idx' = [idx EXCEPT ![f] = @ + 1]
                       /\ UNCHANGED <<retProxy, retRule, retErr, mpc, readers>>
  /\ UNCHANGED <<rules, proxies, defaultHosts, rpc, newCfg>>
  /\ UNCHANGED notTun

\* lines 415-456: one iteration of the range loop; the deferred RUnlock on return
MatchRule(f) ==
  /\ mpc[f] = "rules"
  /\ idx[f] <= Len(rules)
  /\ LET r == rules[idx[f]]
         doResolve == ~resolved[f] /\ shouldResolveIP(r, md[f])
         doProcess == ~processFound[f] /\ ShouldFindProcess(r)
     IN \E ip \in (IF doResolve THEN {NoIP, DNSAnswer[md[f].Host]} ELSE {NoIP}),
           path \in (IF doProcess THEN {"", "curl"} ELSE {""}) :
          LET m1 == IF doResolve /\ ip # NoIP
                      THEN [md[f] EXCEPT !.DstIP = ip] ELSE md[f]
              m2 == IF doProcess /\ path # ""
                      THEN [m1 EXCEPT !.Process = path] ELSE m1
          IN /\ md' = [md EXCEPT ![f] = m2]
             /\ resolved' = [resolved EXCEPT ![f] = @ \/ doResolve]
             /\ processFound' = [processFound EXCEPT ![f] = @ \/ doProcess]
             /\ seen' = [seen EXCEPT ![f] = Append(@, m2)]
             /\ lookups' = [lookups EXCEPT ![f] =
                  @ \o (IF doResolve THEN <<Lookup("ip", idx[f], ip # NoIP)>> ELSE <<>>)
                    \o (IF doProcess THEN <<Lookup("process", idx[f], path # "")>> ELSE <<>>)]
             /\ IF matchDecide(r, m2) = "return"
                  THEN /\ retProxy' = [retProxy EXCEPT ![f] = proxyOf(r.adapter)]
                       /\ retRule' = [retRule EXCEPT ![f] = idx[f]]
                       /\ retErr' = [retErr EXCEPT ![f] = NoErr]
                       /\ mpc' = [mpc EXCEPT ![f] = "done"]
                       /\ readers' = readers \ {f}
                       /\ UNCHANGED idx
                  ELSE /\ idx' = [idx EXCEPT ![f] = @ + 1]
                       /\ UNCHANGED <<retProxy, retRule, retErr, mpc, readers>>
  /\ UNCHANGED <<rules, proxies, defaultHosts, rpc, newCfg>>
  /\ UNCHANGED notTun

\* mutant: the fallback returns the direct outbound
MatchFallbackDirect(f) ==
  /\ mpc[f] = "rules"
  /\ idx[f] > Len(rules)
  /\ retProxy' = [retProxy EXCEPT ![f] = proxyOf("DIRECT")]
  /\ retRule' = [retRule EXCEPT ![f] = 0]
  /\ retErr' = [retErr EXCEPT ![f] = NoErr]
  /\ mpc' = [mpc EXCEPT ![f] = "done"]
  /\ readers' = readers \ {f}
  /\ UNCHANGED <<rules, proxies, defaultHosts, rpc, newCfg, md, resolved,
                 processFound, idx, seen,
                 lookups>>
  /\ UNCHANGED notTun

\* line 458: no rule returned; the deferred RUnlock
MatchFallback(f) ==
  /\ mpc[f] = "rules"
  /\ idx[f] > Len(rules)
  /\ retProxy' = [retProxy EXCEPT ![f] = proxyOf("REJECT")]
  /\ retRule' = [retRule EXCEPT ![f] = 0]
  /\ retErr' = [retErr EXCEPT ![f] = NoErr]
  /\ mpc' = [mpc EXCEPT ![f] = "done"]
  /\ readers' = readers \ {f}
  /\ UNCHANGED <<rules, proxies, defaultHosts, rpc, newCfg, md, resolved,
                 processFound, idx, seen,
                 lookups>>
  /\ UNCHANGED notTun

(***************************************************************************)
(* executor.ApplyConfig.                                                    *)
(***************************************************************************)
\* lines 547-557: a reload starts with configuration c
ApplyConfig(c) ==
  /\ rpc = "idle"
  /\ newCfg' = c
  /\ rpc' = "proxies"
  /\ UNCHANGED <<rules, proxies, defaultHosts, readers, mpc, md, resolved,
                 processFound, idx, retProxy, retRule, retErr, seen,
                 lookups>>
  /\ UNCHANGED notTun

\* line 558, tunnel.UpdateProxies: Lock, assign, Unlock
UpdateProxies ==
  /\ rpc = "proxies"
  /\ readers = {}
  /\ proxies' = newCfg.proxies
  /\ rpc' = "rules"
  /\ UNCHANGED <<rules, defaultHosts, readers, newCfg, mpc, md, resolved,
                 processFound, idx, retProxy, retRule, retErr, seen,
                 lookups>>
  /\ UNCHANGED notTun

\* line 559, tunnel.UpdateRules: Lock, assign, Unlock; then the rest of
\* ApplyConfig
UpdateRules ==
  /\ rpc = "rules"
  /\ readers = {}
  /\ rules' = newCfg.rules
  /\ rpc' = "idle"
  /\ UNCHANGED <<proxies, defaultHosts, readers, newCfg, mpc, md, resolved,
                 processFound, idx, retProxy, retRule, retErr, seen,
                 lookups>>
  /\ UNCHANGED notTun

\* one flow dispatched against a drawn rule list, proxy set and hosts table
InitMatch ==
  /\ rules \in RuleLists
  /\ proxies \in ProxySets
  /\ defaultHosts \in HostsTables
  /\ readers = {}
  /\ rpc = "off"
  /\ newCfg = CfgA
  /\ mpc = [f \in Flows |-> IF f = 1 THEN "start" ELSE "off"]
  /\ md \in {[f \in Flows |-> IF f = 1 THEN m ELSE NoMetadata] :
               m \in Metadatas}
  /\ resolved = [f \in Flows |-> FALSE]
  /\ processFound = [f \in Flows |-> FALSE]
  /\ idx = [f \in Flows |-> 1]
  /\ retProxy = [f \in Flows |-> NilProxy]
  /\ retRule = [f \in Flows |-> 0]
  /\ retErr = [f \in Flows |-> NoErr]
  /\ seen = [f \in Flows |-> <<>>]
  /\ lookups = [f \in Flows |-> <<>>]
  /\ ParkedUDP
  /\ ParkedDNS
  /\ ParkedRip
  /\ ParkedBat
  /\ ParkedMode
  /\ ParkedPre
  /\ ParkedDoH
  /\ ParkedCli
  /\ ParkedLock
  /\ ParkedTcp
  /\ ParkedDual
  /\ ParkedHC
  /\ ParkedGeo

NextMatch ==
  \E f \in Flows :
    \/ MatchStart(f)
    \/ MatchRule(f)
    \/ MatchFallback(f)

SpecMatch == InitMatch /\ [][NextMatch]_vars

\* two flows dispatched while configurations are reloaded
InitReload ==
  /\ \E c \in Configs : rules = c.rules /\ proxies = c.proxies
  /\ defaultHosts = [h \in Hosts \cup {""} |-> NoIP]
  /\ readers = {}
  /\ rpc = "idle"
  /\ newCfg = CfgA
  /\ mpc = [f \in Flows |-> "start"]
  /\ md \in [Flows -> {m \in Metadatas : m.NetWork = "TCP" /\ m.Host # ""}]
  /\ resolved = [f \in Flows |-> FALSE]
  /\ processFound = [f \in Flows |-> FALSE]
  /\ idx = [f \in Flows |-> 1]
  /\ retProxy = [f \in Flows |-> NilProxy]
  /\ retRule = [f \in Flows |-> 0]
  /\ retErr = [f \in Flows |-> NoErr]
  /\ seen = [f \in Flows |-> <<>>]
  /\ lookups = [f \in Flows |-> <<>>]
  /\ ParkedUDP
  /\ ParkedDNS
  /\ ParkedRip
  /\ ParkedBat
  /\ ParkedMode
  /\ ParkedPre
  /\ ParkedDoH
  /\ ParkedCli
  /\ ParkedLock
  /\ ParkedTcp
  /\ ParkedDual
  /\ ParkedHC
  /\ ParkedGeo

NextReload ==
  \/ \E f \in Flows : MatchStart(f) \/ MatchRule(f) \/ MatchFallback(f)
  \/ \E c \in Configs : ApplyConfig(c)
  \/ UpdateProxies
  \/ UpdateRules

SpecReload == InitReload /\ [][NextReload]_vars

(***************************************************************************)
(* Dispatcher properties.                                                   *)
(***************************************************************************)
\* the outbound of rule r is usable for metadata m: it is in the active proxy
\* set and supports UDP when the flow is UDP
Usable(r, m) ==
  /\ r.adapter \in DOMAIN proxies
  /\ m.NetWork = "UDP" => proxies[r.adapter].udp

\* the rules of flow f's pass that matched the metadata they were given
Matched(f) ==
  {i \in 1..Len(seen[f]) : RuleMatch(rules[i], seen[f][i])}

\* the rules of flow f's pass that matched and whose outbound is usable
Hits(f) ==
  {i \in Matched(f) : Usable(rules[i], seen[f][i])}

\* C4: a dispatch pass never runs with the rule list of one configuration
\* and the proxy set of another: while a pass holds the read lock, rules and
\* proxies are the pair of one configuration.
C4_RulesAndProxiesOfOneConfig ==
  \A f \in Flows :
    mpc[f] = "rules" => \E c \in Configs : rules = c.rules /\ proxies = c.proxies

\* C7: match returns the outbound of the first rule, in list order, that
\* matches and whose outbound is usable; with [Domain example.com -> P1,
\* Match -> DIRECT], example.com goes to P1 and other.com to DIRECT.
C7_FirstUsableMatchWins ==
  \A f \in Flows :
    mpc[f] = "done" =>
      /\ retRule[f] # 0 =>
           /\ retRule[f] \in Hits(f)
           /\ \A j \in Hits(f) : retRule[f] <= j
           /\ retProxy[f] = rules[retRule[f]].adapter
      /\ Hits(f) # {} => retRule[f] # 0
      /\ ( /\ rules = <<Rule("Domain", "example.com", "P1", FALSE),
                       Rule("MATCH", "", "DIRECT", FALSE)>>
           /\ {"P1", "DIRECT"} \subseteq DOMAIN proxies
           /\ md[f].NetWork = "TCP" )
         => /\ md[f].Host = "example.com" => retProxy[f] = "P1"
            /\ md[f].Host # "example.com" => retProxy[f] = "DIRECT"

\* a pass returned a rule that is not the first of the list, past an earlier
\* rule that did not match, and a later rule would have matched too
C7_Witness ==
  \E f \in Flows :
    /\ mpc[f] = "done"
    /\ retRule[f] = 2
    /\ Len(rules) = 3
    /\ md[f].Host = "other.com"
    /\ rules[1].type = "Domain" /\ rules[2].type = "Domain"
    /\ rules[3].type = "MATCH" /\ Usable(rules[3], md[f])

\* C8: a matching rule whose outbound is unusable (absent from the proxy set,
\* or without UDP support on a UDP flow) is skipped and the pass goes on: the
\* pass never returns that rule, it returns the next matching rule with a
\* usable outbound, and it evaluates every rule when there is none.
C8_UnusableMatchIsSkipped ==
  \A f \in Flows :
    mpc[f] = "done" =>
      \A j \in Matched(f) \ Hits(f) :
        /\ retRule[f] # j
        /\ retRule[f] # 0 =>
             /\ retRule[f] > j
             /\ retProxy[f] # NilProxy
             /\ \A k \in Hits(f) : k > j => retRule[f] <= k
        /\ retRule[f] = 0 => Len(seen[f]) = Len(rules) /\ Hits(f) = {}

\* a UDP pass skipped a matching rule whose outbound is absent and a matching
\* rule whose outbound has no UDP support, and returned the rule after them
C8_Witness ==
  \E f \in Flows :
    /\ mpc[f] = "done"
    /\ md[f].NetWork = "UDP"
    /\ retRule[f] = 3
    /\ {1, 2} \subseteq Matched(f)
    /\ rules[1].adapter \notin DOMAIN proxies
    /\ rules[2].adapter \in DOMAIN proxies /\ ~proxies[rules[2].adapter].udp

LookupsOf(f, kind) == {i \in DOMAIN lookups[f] : lookups[f][i].kind = kind}

\* C22: within one match pass the destination host is resolved at most once
\* and the process name looked up at most once, each at the first rule
\* reached that requires it and before that rule's Match, and the IP or
\* process name obtained is what that rule and every later rule sees.
C22_LookupsAtMostOncePerPass ==
  \A f \in Flows :
    /\ Cardinality(LookupsOf(f, "ip")) <= 1
    /\ Cardinality(LookupsOf(f, "process")) <= 1
    /\ \A i \in DOMAIN lookups[f] :
         LET l == lookups[f][i] IN
           /\ l.at \in 1..Len(rules)
           /\ l.at <= Len(seen[f])
           /\ l.kind = "ip" =>
                /\ ShouldResolveIP(rules[l.at])
                /\ md[f].Host # ""
                /\ \A j \in 1..(l.at - 1) :
                     ~ShouldResolveIP(rules[j]) /\ seen[f][j].DstIP = NoIP
                /\ \A j \in l.at..Len(seen[f]) :
                     seen[f][j].DstIP = IF l.ok THEN DNSAnswer[md[f].Host] ELSE NoIP
           /\ l.kind = "process" =>
                /\ ShouldFindProcess(rules[l.at])
                /\ \A j \in 1..(l.at - 1) :
                     ~ShouldFindProcess(rules[j]) /\ seen[f][j].Process = ""
                /\ \A j \in l.at..Len(seen[f]) :
                     seen[f][j].Process = IF l.ok THEN "curl" ELSE ""

\* a pass of three rules resolved the host at its first rule and found the
\* process at its second; the third rule, which needs the IP as well, saw
\* both without a new lookup
C22_Witness ==
  \E f \in Flows :
    /\ Len(rules) = 3 /\ Len(seen[f]) = 3
    /\ ShouldResolveIP(rules[1]) /\ ShouldFindProcess(rules[2])
    /\ ShouldResolveIP(rules[3])
    /\ lookups[f] = <<Lookup("ip", 1, TRUE), Lookup("process", 2, TRUE)>>
    /\ seen[f][3].DstIP = DNSAnswer[md[f].Host] /\ seen[f][3].Process = "curl"

\* C27: a failed IP resolution does not end the pass and is not returned as
\* an error: the destination IP stays unset, the rule that asked for it and
\* the rules after it are evaluated as usual (up to the first usable match,
\* or all of them), and no later rule resolves again.
C27_ResolveFailureNotFatal ==
  \A f \in Flows :
    \A i \in LookupsOf(f, "ip") :
      LET l == lookups[f][i] IN
      ~l.ok =>
        /\ LookupsOf(f, "ip") = {i}
        /\ md[f].DstIP = NoIP
        /\ Len(seen[f]) >= l.at
        /\ \A j \in 1..Len(seen[f]) : seen[f][j].DstIP = NoIP
        /\ mpc[f] = "rules" => idx[f] = Len(seen[f]) + 1
        /\ mpc[f] = "done" =>
             /\ retErr[f] = NoErr
             /\ retRule[f] # 0 =>
                  retRule[f] = Len(seen[f]) /\ retRule[f] \in Hits(f)
             /\ retRule[f] = 0 =>
                  Len(seen[f]) = Len(rules) /\ retProxy[f] = proxyOf("REJECT")

\* the resolution asked for by the first rule failed, the second rule, which
\* needs the IP too, was evaluated without a new resolution, and the third
\* rule was returned
C27_Witness ==
  \E f \in Flows :
    /\ mpc[f] = "done"
    /\ Len(rules) = 3
    /\ ShouldResolveIP(rules[1]) /\ ShouldResolveIP(rules[2])
    /\ lookups[f] = <<Lookup("ip", 1, FALSE)>>
    /\ retRule[f] = 3 /\ retErr[f] = NoErr
    /\ md[f].DstIP = NoIP

(***************************************************************************)
(* dns: messages and the cache.                                             *)
(***************************************************************************)
\* setMsgTTL(msg, ttl)
setMsgTTL(m, ttl) ==
  [m EXCEPT !.Answer = [i \in DOMAIN @ |-> [@[i] EXCEPT !.ttl = ttl]],
            !.Ns = [i \in DOMAIN @ |-> [@[i] EXCEPT !.ttl = ttl]],
            !.Extra = [i \in DOMAIN @ |-> [@[i] EXCEPT !.ttl = ttl]]]

\* putMsgToCache line 39: the object stored is msg.Copy()
cachedMsg(m) == Obj("putMsgToCache", m.by, m.call)

\* mutant: a message without records is stored too, with TTL 0
putMsgToCacheEmptyToo(c, key, m) ==
  [c EXCEPT ![key] =
     [has |-> TRUE, msg |-> m, obj |-> cachedMsg(m), at |-> now,
      expire |-> now + TicksPerSecond *
                   (IF Len(m.Answer) # 0 THEN m.Answer[1].ttl
                    ELSE IF Len(m.Ns) # 0 THEN m.Ns[1].ttl
                    ELSE IF Len(m.Extra) # 0 THEN m.Extra[1].ttl
                    ELSE 0)]]

\* putMsgToCache(c, key, msg): the cache after the call
putMsgToCache(c, key, m) ==
  IF Len(m.Answer) # 0
    THEN [c EXCEPT ![key] =
            [has |-> TRUE, msg |-> m, obj |-> cachedMsg(m), at |-> now,
             expire |-> now + TicksPerSecond * m.Answer[1].ttl]]
    ELSE IF Len(m.Ns) # 0
      THEN [c EXCEPT ![key] =
              [has |-> TRUE, msg |-> m, obj |-> cachedMsg(m), at |-> now,
               expire |-> now + TicksPerSecond * m.Ns[1].ttl]]
      ELSE IF Len(m.Extra) # 0
        THEN [c EXCEPT ![key] =
                [has |-> TRUE, msg |-> m, obj |-> cachedMsg(m), at |-> now,
                 expire |-> now + TicksPerSecond * m.Extra[1].ttl]]
        ELSE c

\* uint32(d.Seconds()) for a duration of d ticks: the fraction is discarded
\* (truncation towards zero); the durations that occur are above -1 second
\* and far below 2^32 seconds, so the result is in the range of a uint32
uint32Seconds(d) ==
  IF d >= 0 THEN d \div TicksPerSecond ELSE -((-d) \div TicksPerSecond)

\* isIPRequest(q)
isIPRequest(q) == q = "A"

\* msgToIP(msg): the addresses of the A/AAAA records of the answer section
msgToIP(m) == SelectSeq([i \in DOMAIN m.Answer |-> m.Answer[i].ip],
                        LAMBDA ip : ip # NoIP)

(***************************************************************************)
(* dns.Resolver.                                                            *)
(***************************************************************************)
\* Resolver.shouldIPFallback(ip)
shouldIPFallback(ip) == ip \in FlaggedIPs

\* Resolver.matchPolicy(m): whether a policy entry matches the question's name
matchPolicy == rcfg.policy

\* mutant: no domain is fallback-only
shouldOnlyQueryFallbackNever == FALSE

\* Resolver.shouldOnlyQueryFallback(m)
shouldOnlyQueryFallback == rcfg.fallback /\ rcfg.domainFilter

\* mutant: the main result is kept whenever it reports no error
ipExchangeKeepsMainNoFilter(res) == ~res.err

\* mutant: the main result is kept when it is an error too
ipExchangeKeepsMainOnError(res) ==
  \/ res.err
  \/ (Len(msgToIP(res)) # 0 /\ ~shouldIPFallback(msgToIP(res)[1]))

\* mutant: the fallback group is asked whatever the main group answered
ipExchangeKeepsMainNever(res) == FALSE

\* mutant: a successful main answer without an address record is kept too
ipExchangeKeepsMainWithoutIP(res) ==
  /\ ~res.err
  /\ (Len(msgToIP(res)) = 0 \/ ~shouldIPFallback(msgToIP(res)[1]))

\* ipExchange lines 246-255: the main result is returned and the fallback
\* group is not asked
ipExchangeKeepsMain(res) ==
  /\ ~res.err
  /\ Len(msgToIP(res)) # 0
  /\ ~shouldIPFallback(msgToIP(res)[1])

\* the transport group each stage of the function given to group.Do queries
GroupOf(st) ==
  CASE st \in {"ipPolicy", "policy"} -> "policy"
    [] st \in {"ipOnlyFallback", "ipFallback"} -> "fallback"
    [] st \in {"ipMain", "main"} -> "main"

\* mutant: ipExchange looks at the fallback domain filters before the policy
firstStageFilterFirst(q) ==
  IF isIPRequest(q)
    THEN IF shouldOnlyQueryFallback THEN "ipOnlyFallback"
         ELSE IF matchPolicy THEN "ipPolicy"
         ELSE "ipMain"
    ELSE IF matchPolicy THEN "policy" ELSE "main"

\* exchangeWithoutCache lines 137-145 and ipExchange lines 226-238: the first
\* group queried for question q
firstStage(q) ==
  IF isIPRequest(q)
    THEN IF matchPolicy THEN "ipPolicy"
         ELSE IF shouldOnlyQueryFallback THEN "ipOnlyFallback"
         ELSE "ipMain"
    ELSE IF matchPolicy THEN "policy" ELSE "main"

\* ExchangeContext line 108: msg = cacheM.Copy()
cacheHitMsg(e, c) == Obj("ExchangeContext", "", c)

\* mutant: the callers that shared an execution are handed its one object
returnedMsgNoCopy(res, sh, t) == ObjOf(res)

\* exchangeWithoutCache lines 148-153: the object handed to task t, a copy
\* when group.Do reported the result as shared
returnedMsg(res, sh, t) ==
  IF res.err THEN NilObj
  ELSE IF sh THEN Obj("exchangeWithoutCache", "", t)
  ELSE ObjOf(res)

\* mutant: a hit past expiry is treated like any other hit
ExchangeContextNoStale(c) ==
  /\ tpc[c] = "start"
  /\ LET e == lruCache[tq[c]] IN
       /\ hitEntry' = [hitEntry EXCEPT ![c] = e]
       /\ tobj' = [tobj EXCEPT ![c] = IF e.has THEN cacheHitMsg(e, c) ELSE @]
       /\ IF e.has
            THEN /\ tret' = [tret EXCEPT ![c] =
                               setMsgTTL(e.msg, uint32Seconds(e.expire - now))]
                 /\ hitAt' = [hitAt EXCEPT ![c] = now]
                 /\ tpc' = [tpc EXCEPT ![c] = "done"]
                 /\ staleHit' = [staleHit EXCEPT ![c] = e.expire < now]
            ELSE /\ tpc' = [tpc EXCEPT ![c] = "do"]
                 /\ UNCHANGED <<tret, staleHit, hitAt>>
  /\ UNCHANGED <<now, rcfg, lruCache, tq, stage, sfLeader, sfJoin, joined,
                 rmain, fret, shared, ncall, calls>>
  /\ UNCHANGED notDNS

\* mutant: a hit before expiry returns the cached TTLs as they are
ExchangeContextKeepTTL(c) ==
  /\ tpc[c] = "start"
  /\ LET e == lruCache[tq[c]] IN
       /\ hitEntry' = [hitEntry EXCEPT ![c] = e]
       /\ tobj' = [tobj EXCEPT ![c] = IF e.has THEN cacheHitMsg(e, c) ELSE @]
       /\ IF e.has
            THEN IF e.expire < now
                   THEN /\ tret' = [tret EXCEPT ![c] = setMsgTTL(e.msg, 1)]
                        /\ tpc' = [tpc EXCEPT ![c] = "done",
                                               ![Refresher(c)] = "do"]
                        /\ staleHit' = [staleHit EXCEPT ![c] = TRUE]
                        /\ UNCHANGED hitAt
                   ELSE /\ tret' = [tret EXCEPT ![c] = e.msg]
                        /\ hitAt' = [hitAt EXCEPT ![c] = now]
                        /\ tpc' = [tpc EXCEPT ![c] = "done"]
                        /\ UNCHANGED staleHit
            ELSE /\ tpc' = [tpc EXCEPT ![c] = "do"]
                 /\ UNCHANGED <<tret, staleHit, hitAt>>
  /\ UNCHANGED <<now, rcfg, lruCache, tq, stage, sfLeader, sfJoin, joined,
                 rmain, fret, shared, ncall, calls>>
  /\ UNCHANGED notDNS

\* ExchangeContext lines 99-120: the cache lookup; a hit returns a copy: past
\* expiry with TTL 1, and the refresh goroutine starts; before expiry with the
\* TTL time.Until(expireTime) gives, whose clock read (line 115) comes after
\* the one compared with the expiry (line 107), here by at most one tick
ExchangeContext(c) ==
  /\ tpc[c] = "start"
  /\ LET e == lruCache[tq[c]] IN
       /\ hitEntry' = [hitEntry EXCEPT ![c] = e]
       /\ tobj' = [tobj EXCEPT ![c] = IF e.has THEN cacheHitMsg(e, c) ELSE @]
       /\ IF e.has
            THEN IF e.expire < now
                   THEN /\ tret' = [tret EXCEPT ![c] = setMsgTTL(e.msg, 1)]
                        /\ tpc' = [tpc EXCEPT ![c] = "done",
                                               ![Refresher(c)] = "do"]
                        /\ staleHit' = [staleHit EXCEPT ![c] = TRUE]
                        /\ UNCHANGED hitAt
                   ELSE \E later \in {0, 1} :
                          /\ tret' = [tret EXCEPT ![c] =
                                        setMsgTTL(e.msg,
                                          uint32Seconds(e.expire - (now + later)))]
                          /\ hitAt' = [hitAt EXCEPT ![c] = now + later]
                          /\ tpc' = [tpc EXCEPT ![c] = "done"]
                          /\ UNCHANGED staleHit
            ELSE /\ tpc' = [tpc EXCEPT ![c] = "do"]
                 /\ UNCHANGED <<tret, staleHit, hitAt>>
  /\ UNCHANGED <<now, rcfg, lruCache, tq, stage, sfLeader, sfJoin, joined,
                 rmain, fret, shared, ncall, calls>>
  /\ UNCHANGED notDNS

\* mutant: exchangeWithoutCache calls the function without r.group
groupDoNoGroup(t) ==
  /\ tpc[t] = "do"
  /\ LET q == tq[Owner(t)]
         st == firstStage(q)
     IN /\ sfLeader' = [sfLeader EXCEPT ![q] = t]
        /\ stage' = [stage EXCEPT ![t] = st]
        /\ calls' = [calls EXCEPT ![GroupOf(st)] = @ + 1]
        /\ ncall' = [ncall EXCEPT ![t] = @ + 1]
        /\ tpc' = [tpc EXCEPT ![t] = "wait"]
        /\ UNCHANGED <<sfJoin, joined>>
  /\ UNCHANGED <<now, rcfg, lruCache, tq, rmain, fret, tret, tobj, shared,
                 staleHit, hitEntry, hitAt>>
  /\ UNCHANGED notDNS

\* exchangeWithoutCache line 126, r.group.Do(q.String(), fn): wait for the
\* execution in flight for the key, or start one and send its first query
groupDo(t) ==
  /\ tpc[t] = "do"
  /\ LET q == tq[Owner(t)]
         st == firstStage(q)
     IN IF sfLeader[q] # Nil
          THEN /\ sfJoin' = [sfJoin EXCEPT ![q] = @ \cup {t}]
               /\ joined' = [joined EXCEPT ![t] = sfLeader[q]]
               /\ tpc' = [tpc EXCEPT ![t] = "joined"]
               /\ UNCHANGED <<sfLeader, stage, calls, ncall>>
          ELSE /\ sfLeader' = [sfLeader EXCEPT ![q] = t]
               /\ stage' = [stage EXCEPT ![t] = st]
               /\ calls' = [calls EXCEPT ![GroupOf(st)] = @ + 1]
               /\ ncall' = [ncall EXCEPT ![t] = @ + 1]
               /\ tpc' = [tpc EXCEPT ![t] = "wait"]
               /\ UNCHANGED <<sfJoin, joined>>
  /\ UNCHANGED <<now, rcfg, lruCache, tq, rmain, fret, tret, tobj, shared,
                 staleHit, hitEntry, hitAt>>
  /\ UNCHANGED notDNS

\* a group's result arrives (batchExchange returns). ipExchange lines 240-259
\* either returns it or queries the fallback group; when the function returns,
\* its deferred putMsgToCache (lines 127-135) runs
groupResult(t) ==
  /\ tpc[t] = "wait"
  /\ LET q == tq[Owner(t)]
         g == GroupOf(stage[t])
     IN \E res \in Outcomes(q, g, t) :
          IF stage[t] = "ipMain" /\ rcfg.fallback /\ ~ipExchangeKeepsMain(res)
            THEN /\ rmain' = [rmain EXCEPT ![t] = res]
                 /\ stage' = [stage EXCEPT ![t] = "ipFallback"]
                 /\ calls' = [calls EXCEPT !["fallback"] = @ + 1]
                 /\ ncall' = [ncall EXCEPT ![t] = @ + 1]
                 /\ UNCHANGED <<tpc, fret, lruCache>>
            ELSE /\ rmain' = [rmain EXCEPT ![t] = IF stage[t] = "ipMain"
                                                   THEN res ELSE @]
                 /\ fret' = [fret EXCEPT ![t] = res]
                 /\ lruCache' = IF res.err THEN lruCache
                                ELSE putMsgToCache(lruCache, q, res)
                 /\ tpc' = [tpc EXCEPT ![t] = "complete"]
                 /\ UNCHANGED <<stage, calls, ncall>>
  /\ UNCHANGED <<now, rcfg, tq, sfLeader, sfJoin, joined, tret, tobj, shared,
                 staleHit, hitEntry, hitAt>>
  /\ UNCHANGED notDNS

\* group.Do returns: the key leaves the group, the waiting tasks are handed
\* the same value; exchangeWithoutCache lines 148-155 return it
groupDone(t) ==
  /\ tpc[t] = "complete"
  /\ LET q == tq[Owner(t)]
         all == sfJoin[q] \cup {t}
     IN /\ sfLeader' = [sfLeader EXCEPT ![q] = IF @ = t THEN Nil ELSE @]
        /\ sfJoin' = [sfJoin EXCEPT ![q] = IF sfLeader[q] = t THEN {} ELSE @]
        /\ LET out == IF sfLeader[q] = t THEN all ELSE {t} IN
             /\ tret' = [u \in Tasks |-> IF u \in out THEN fret[t] ELSE tret[u]]
             /\ tobj' = [u \in Tasks |->
                         IF u \in out
                           THEN returnedMsg(fret[t], sfJoin[q] # {} /\ sfLeader[q] = t, u)
                           ELSE tobj[u]]
             /\ shared' = [u \in Tasks |-> IF u \in out
                                            THEN sfJoin[q] # {} /\ sfLeader[q] = t
                                            ELSE shared[u]]
             /\ tpc' = [u \in Tasks |-> IF u \in out THEN "done" ELSE tpc[u]]
  /\ UNCHANGED <<now, rcfg, lruCache, tq, stage, joined, rmain, fret, ncall,
                 calls, staleHit, hitEntry, hitAt>>
  /\ UNCHANGED notDNS

\* a tick passes
Tick ==
  /\ now < MaxTime
  /\ now' = now + 1
  /\ UNCHANGED <<rcfg, lruCache, tq, tpc, stage, sfLeader, sfJoin, joined,
                 rmain, fret, tret, tobj, shared, ncall, calls, staleHit,
                 hitEntry, hitAt>>
  /\ UNCHANGED notDNS

\* an entry left in the cache by an earlier exchange of question q, whose
\* first record had a TTL of 2 seconds; it expires at tick expire
OldEntry(q, expire) ==
  [has |-> TRUE,
   msg |-> Result(FALSE, "main", 0,
                  <<RR(IF q = "A" THEN "8.8.8.8" ELSE NoIP, 2)>>, <<>>),
   obj |-> Obj("putMsgToCache", "main", 0),
   expire |-> expire, at |-> expire - 2 * TicksPerSecond]

\* the resolvers drawn: main only; main and fallback; main and fallback with
\* a fallback domain filter that matches; a policy entry that matches, with
\* and without a fallback group and a matching fallback domain filter
ResolverConfigs ==
  { [fallback |-> FALSE, policy |-> FALSE, domainFilter |-> FALSE],
    [fallback |-> TRUE, policy |-> FALSE, domainFilter |-> FALSE],
    [fallback |-> TRUE, policy |-> FALSE, domainFilter |-> TRUE],
    [fallback |-> TRUE, policy |-> TRUE, domainFilter |-> TRUE],
    [fallback |-> TRUE, policy |-> TRUE, domainFilter |-> FALSE],
    [fallback |-> FALSE, policy |-> TRUE, domainFilter |-> FALSE] }

InitDNS ==
  /\ now = 0
  /\ rcfg \in ResolverConfigs
  /\ lruCache \in {[q \in Questions |-> NoEntry],
                   [q \in Questions |-> OldEntry(q, 1)],
                   [q \in Questions |-> OldEntry(q, 3)]}
  /\ tq \in {f \in [Callers -> Questions] :
              \A c \in Callers : f[c] = "TXT" => c = NumCallers}
  /\ tpc = [t \in Tasks |-> IF t \in Callers THEN "start" ELSE "off"]
  /\ stage = [t \in Tasks |-> ""]
  /\ sfLeader = [q \in Questions |-> Nil]
  /\ sfJoin = [q \in Questions |-> {}]
  /\ joined = [t \in Tasks |-> Nil]
  /\ rmain = [t \in Tasks |-> NoResult]
  /\ fret = [t \in Tasks |-> NoResult]
  /\ tret = [t \in Tasks |-> NoResult]
  /\ tobj = [t \in Tasks |-> NilObj]
  /\ shared = [t \in Tasks |-> FALSE]
  /\ ncall = [t \in Tasks |-> 0]
  /\ calls = [g \in Groups |-> 0]
  /\ staleHit = [c \in Callers |-> FALSE]
  /\ hitEntry = [c \in Callers |-> NoEntry]
  /\ hitAt = [c \in Callers |-> 0]
  /\ ParkedUDP
  /\ ParkedTun
  /\ ParkedRip
  /\ ParkedBat
  /\ ParkedMode
  /\ ParkedPre
  /\ ParkedDoH
  /\ ParkedCli
  /\ ParkedLock
  /\ ParkedTcp
  /\ ParkedDual
  /\ ParkedHC
  /\ ParkedGeo

NextDNS ==
  \/ \E c \in Callers : ExchangeContext(c)
  \/ \E t \in Tasks : groupDo(t) \/ groupResult(t) \/ groupDone(t)
  \/ Tick

SpecDNS == InitDNS /\ [][NextDNS]_vars

(***************************************************************************)
(* Resolver properties.                                                     *)
(***************************************************************************)
\* the question of task t
QuestionOf(t) == tq[Owner(t)]

\* the tasks whose function given to group.Do is running for question q
Executing(q) ==
  {t \in Tasks : QuestionOf(t) = q /\ tpc[t] \in {"wait", "complete"}}

\* the resolver has one transport: the main group, no fallback, no policy
MainOnly == ~rcfg.fallback /\ ~rcfg.policy

\* every record of message m has TTL ttl
AllTTL(m, ttl) ==
  /\ \A i \in DOMAIN m.Answer : m.Answer[i].ttl = ttl
  /\ \A i \in DOMAIN m.Ns : m.Ns[i].ttl = ttl
  /\ \A i \in DOMAIN m.Extra : m.Extra[i].ttl = ttl

C6_StaleHitOneUpstreamRefresh ==
  \A c \in Callers :
    staleHit[c] =>
      /\ tpc[c] = "done" /\ ncall[c] = 0 /\ joined[c] = Nil
      /\ ~tret[c].err /\ AllTTL(tret[c], 1)
      /\ tpc[Refresher(c)] = "done" => stage[Refresher(c)] # ""

\* C6 as amended: a hit past expiry returns the cached response with every
\* TTL 1 without any upstream exchange by the caller and starts exactly one
\* background exchangeWithoutCache, which makes one upstream exchange of its
\* own unless it joins an exchange in flight for the question.
C6_StaleHitOneRefresh ==
  \A c \in Callers :
    /\ staleHit[c] =>
         /\ tpc[c] = "done" /\ ncall[c] = 0 /\ joined[c] = Nil
         /\ ~tret[c].err /\ AllTTL(tret[c], 1)
         /\ Len(tret[c].Answer) + Len(tret[c].Ns) + Len(tret[c].Extra) > 0
         /\ tpc[Refresher(c)] # "off"
         /\ tpc[Refresher(c)] = "done" =>
              \/ joined[Refresher(c)] # Nil /\ stage[Refresher(c)] = ""
                   /\ ncall[Refresher(c)] = 0
              \/ joined[Refresher(c)] = Nil /\ stage[Refresher(c)] # ""
                   /\ ncall[Refresher(c)] >= 1
    /\ tpc[Refresher(c)] # "off" => staleHit[c]

\* a caller was served the expired entry with TTL 1 and its refresh has
\* completed one upstream exchange that renewed the cache entry
C6_Witness ==
  \E c \in Callers :
    /\ staleHit[c]
    /\ AllTTL(tret[c], 1) /\ Len(tret[c].Answer) > 0
    /\ tpc[Refresher(c)] = "done"
    /\ ncall[Refresher(c)] = 1
    /\ ~fret[Refresher(c)].err
    /\ lruCache[tq[c]].msg = fret[Refresher(c)]

\* the function of task t ran ipExchange down to the main/fallback split and
\* has returned
SplitReturned(t) ==
  /\ tpc[t] \in {"complete", "done"}
  /\ stage[t] \in {"ipMain", "ipFallback"}
  /\ rcfg.fallback

\* C9: with a fallback group, no policy match and no fallback-only domain:
\* when the main answer is successful and its first IP matches a fallback-IP
\* filter, ipExchange queries the fallback group and returns its result.
C9_FlaggedMainGoesToFallback ==
  \A t \in Tasks :
    ( /\ SplitReturned(t)
      /\ ~rmain[t].err
      /\ Len(msgToIP(rmain[t])) # 0
      /\ msgToIP(rmain[t])[1] \in FlaggedIPs )
    => /\ stage[t] = "ipFallback"
       /\ ncall[t] = 2
       /\ fret[t].by = "fallback" /\ fret[t].call = t
       /\ fret[t] # rmain[t]

\* the main group answered a flagged IP and the fallback group's different
\* IP is what ipExchange returned
C9_Witness ==
  \E t \in Tasks :
    /\ SplitReturned(t)
    /\ ~rmain[t].err /\ msgToIP(rmain[t]) = <<"6.6.6.6">>
    /\ ~fret[t].err /\ fret[t].by = "fallback"
    /\ msgToIP(fret[t]) = <<"8.8.8.8">>

PastPolicyReturned(t) ==
  /\ tpc[t] \in {"complete", "done"}
  /\ stage[t] \in {"ipMain", "ipFallback"}
  /\ isIPRequest(tq[Owner(t)])
  /\ ~matchPolicy
  /\ ~shouldOnlyQueryFallback

\* the main answer of task t is successful and its first IP matches no
\* fallback-IP filter
MainAnswerClean(t) ==
  /\ ~rmain[t].err
  /\ Len(msgToIP(rmain[t])) # 0
  /\ ~shouldIPFallback(msgToIP(rmain[t])[1])

\* C31: for an address question with no policy match and no fallback-only
\* domain match, when no fallback group is configured, or the main answer is
\* successful and its first IP matches none of the fallback-IP filters, the
\* fallback group is not queried and ipExchange returns the main result.
C31_MainResultReturnedWithoutFallback ==
  \A t \in Tasks :
    (PastPolicyReturned(t) /\ (~rcfg.fallback \/ MainAnswerClean(t)))
    => /\ stage[t] = "ipMain"
       /\ ncall[t] = 1
       /\ fret[t] = rmain[t]
       /\ fret[t].by = "main" /\ fret[t].call = t
       /\ (~rcfg.fallback => calls["fallback"] = 0)

\* without a fallback group a failed main query is what ipExchange returned
NoFallbackMainReturned ==
  \E t \in Tasks :
    /\ PastPolicyReturned(t) /\ ~rcfg.fallback
    /\ rmain[t].err /\ rmain[t].by = "main" /\ fret[t] = rmain[t]

\* with a fallback group, a clean main answer is what ipExchange returned
C31_Witness ==
  \E t \in Tasks :
    /\ PastPolicyReturned(t) /\ rcfg.fallback /\ MainAnswerClean(t)
    /\ msgToIP(fret[t]) = <<"8.8.8.8">> /\ fret[t].by = "main"
    /\ tpc[t] = "done"

\* C35: for an address question with a fallback group configured, a main
\* answer that is successful but holds no A/AAAA record is not returned:
\* ipExchange queries the fallback group and returns its result.
C35_MainWithoutAddressGoesToFallback ==
  \A t \in Tasks :
    (SplitReturned(t) /\ ~rmain[t].err /\ Len(msgToIP(rmain[t])) = 0)
    => /\ stage[t] = "ipFallback"
       /\ ncall[t] = 2
       /\ fret[t].by = "fallback" /\ fret[t].call = t
       /\ fret[t] # rmain[t]

\* the main group answered without an address record and the fallback
\* group's answer is what ipExchange returned
C35_Witness ==
  \E t \in Tasks :
    /\ SplitReturned(t)
    /\ ~rmain[t].err /\ rmain[t].by = "main" /\ rmain[t].Answer = <<>>
    /\ Len(rmain[t].Ns) = 1
    /\ ~fret[t].err /\ fret[t].by = "fallback"
    /\ msgToIP(fret[t]) = <<"8.8.8.8">>

\* the records of message m, all sections together
Records(m) == m.Answer \o m.Ns \o m.Extra

\* C16: a lookup that finds an entry that has not expired returns a copy of
\* the cached response (same records) in which every record TTL is the number
\* of whole seconds left until the entry's expiry (zero once less than a
\* second is left); the caller sends no upstream query, joins none and starts
\* no refresh.
C16_FreshHitRemainingTTL ==
  \A c \in Callers :
    (hitEntry[c].has /\ ~staleHit[c]) =>
      LET e == hitEntry[c]
          left == IF e.expire > hitAt[c]
                    THEN (e.expire - hitAt[c]) \div TicksPerSecond ELSE 0
      IN /\ tpc[c] = "done"
         /\ ~tret[c].err
         /\ AllTTL(tret[c], left)
         /\ Len(tret[c].Answer) = Len(e.msg.Answer)
         /\ Len(tret[c].Ns) = Len(e.msg.Ns)
         /\ Len(tret[c].Extra) = Len(e.msg.Extra)
         /\ \A i \in DOMAIN Records(e.msg) :
              Records(tret[c])[i].ip = Records(e.msg)[i].ip
         /\ ncall[c] = 0 /\ joined[c] = Nil
         /\ tpc[Refresher(c)] = "off"

\* a caller found an entry with one and a half seconds left whose record was
\* cached with TTL 2, and was returned the record with TTL 1
C16_Witness ==
  \E c \in Callers :
    /\ hitEntry[c].has /\ ~staleHit[c]
    /\ tpc[c] = "done"
    /\ hitEntry[c].expire - hitAt[c] = 3
    /\ hitEntry[c].msg.Answer[1].ttl = 2
    /\ tret[c].Answer[1].ttl = 1

\* C17: the expiry stored with a cache entry is the time of the insertion
\* plus the minimum TTL over the records of the response.
C17_ExpiryIsInsertionPlusMinTTL ==
  \A q \in Questions :
    lruCache[q].has =>
      LET rs == Records(lruCache[q].msg)
          min == CHOOSE t \in {rs[i].ttl : i \in DOMAIN rs} :
                   \A i \in DOMAIN rs : t <= rs[i].ttl
      IN lruCache[q].expire = lruCache[q].at + TicksPerSecond * min

\* C23: no two tasks are handed the same message object and no task is
\* handed the object a cache entry holds (nor the one held by the entry its
\* lookup hit): what a caller does to its message cannot reach another
\* caller or a later cache hit.
C23_CallersGetPrivateCopies ==
  /\ \A t, u \in Tasks :
       (t # u /\ tobj[t] # NilObj) => tobj[t] # tobj[u]
  /\ \A t \in Tasks, q \in Questions :
       (tobj[t] # NilObj /\ lruCache[q].has) => tobj[t] # lruCache[q].obj
  /\ \A c \in Callers :
       hitEntry[c].has => tobj[c] # NilObj /\ tobj[c] # hitEntry[c].obj
  /\ \A t \in Tasks :
       (tpc[t] = "done" /\ ~tret[t].err) => tobj[t] # NilObj

\* two callers shared one execution: each was handed its own copy of the
\* one response, and the cache holds a third object with the same content
C23_Witness ==
  /\ tpc[1] = "done" /\ tpc[2] = "done"
  /\ joined[2] = 1 /\ shared[1] /\ shared[2]
  /\ ~tret[1].err /\ tret[1] = tret[2]
  /\ tobj[1] = Obj("exchangeWithoutCache", "", 1)
  /\ tobj[2] = Obj("exchangeWithoutCache", "", 2)
  /\ lruCache[tq[1]].msg = tret[1]
  /\ lruCache[tq[1]].obj = Obj("putMsgToCache", tret[1].by, 1)

\* C28: the cache entry of a question changes only in the step in which an
\* execution for that question returns without error a response that has a
\* record in one of its three sections, and then to that response; an
\* execution that returns an error or a response without records leaves the
\* whole cache as it was.
C28_CacheWrittenOnlyBySuccess ==
  [][/\ \A q \in Questions :
          lruCache'[q] # lruCache[q] =>
            \E t \in Tasks :
              /\ QuestionOf(t) = q
              /\ tpc[t] = "wait" /\ tpc'[t] = "complete"
              /\ ~fret'[t].err
              /\ Len(Records(fret'[t])) > 0
              /\ lruCache'[q].has /\ lruCache'[q].msg = fret'[t]
     /\ \A t \in Tasks :
          ( /\ tpc[t] = "wait" /\ tpc'[t] = "complete"
            /\ (fret'[t].err \/ Len(Records(fret'[t])) = 0) )
          => lruCache' = lruCache]_vars

\* an execution returned, without error, a response with no record at all
\* and the cache has no entry for its question
C28_Witness ==
  \E t \in Tasks :
    /\ tpc[t] \in {"complete", "done"} /\ stage[t] # ""
    /\ ~fret[t].err
    /\ Len(Records(fret[t])) = 0
    /\ ~lruCache[QuestionOf(t)].has

\* C29: an execution for an address question whose name matches a policy
\* entry sends one query, to the policy's group, and returns what that group
\* returned, error or not; with the policy matching every question the main
\* and the fallback group are never queried, with or without a fallback
\* group and whether or not a fallback domain filter matches.
C29_PolicyGroupExclusive ==
  rcfg.policy =>
    /\ calls["main"] = 0 /\ calls["fallback"] = 0
    /\ \A t \in Tasks :
         (stage[t] # "" /\ isIPRequest(QuestionOf(t))) =>
           /\ stage[t] = "ipPolicy"
           /\ ncall[t] = 1
           /\ rmain[t] = NoResult
           /\ tpc[t] \in {"complete", "done"} =>
                fret[t].by = "policy" /\ fret[t].call = t
           /\ tpc[t] = "done" => tret[t] = fret[t]

\* with a fallback group and a matching fallback domain filter configured,
\* an address question that matches a policy entry got the policy group's
\* error back, and only the policy group was queried
C29_Witness ==
  \E t \in Tasks :
    /\ rcfg.policy /\ rcfg.fallback /\ rcfg.domainFilter
    /\ QuestionOf(t) = "A" /\ tpc[t] = "done"
    /\ stage[t] = "ipPolicy"
    /\ tret[t] = Result(TRUE, "policy", t, <<>>, <<>>)
    /\ calls["policy"] >= 1 /\ calls["main"] = 0 /\ calls["fallback"] = 0

\* C30: with a fallback group configured, an execution for an address
\* question that matches no policy entry but a fallback domain filter sends
\* one query, to the fallback group, and returns its result: the main group
\* is never sent an address question.
C30_FallbackOnlyDomains ==
  (~rcfg.policy /\ rcfg.fallback /\ rcfg.domainFilter) =>
    /\ \A t \in Tasks :
         (stage[t] # "" /\ isIPRequest(QuestionOf(t))) =>
           /\ stage[t] = "ipOnlyFallback"
           /\ ncall[t] = 1
           /\ rmain[t] = NoResult
           /\ tpc[t] \in {"complete", "done"} =>
                fret[t].by = "fallback" /\ fret[t].call = t
           /\ tpc[t] = "done" => tret[t] = fret[t]
    /\ calls["main"] = Cardinality({t \in Tasks : stage[t] = "main"})
    /\ calls["policy"] = 0

\* an address question of a fallback-only domain was answered by the
\* fallback group with an address that the main/fallback split would have
\* accepted from the main group, which was never queried
C30_Witness ==
  \E t \in Tasks :
    /\ ~rcfg.policy /\ rcfg.fallback /\ rcfg.domainFilter
    /\ QuestionOf(t) = "A" /\ tpc[t] = "done"
    /\ stage[t] = "ipOnlyFallback"
    /\ tret[t] = Result(FALSE, "fallback", t, <<RR("8.8.8.8", 2)>>, <<>>)
    /\ calls["main"] = 0 /\ calls["fallback"] >= 1

(***************************************************************************)
(* Resolver.ResolveIP and Resolver.resolveIP.                               *)
(***************************************************************************)
\* netip.ParseAddr(host): ok is false for a host that is not a literal; an
\* address has a family and, for an IPv4-mapped IPv6 address, the IPv4
\* address it embeds
ParseAddr(h) ==
  CASE h \in {"1.2.3.4"} \cup PacketIPs ->
         [ok |-> TRUE, addr |-> [text |-> h, v6 |-> FALSE, embeds |-> NoIP]]
    [] h = "::1" ->
         [ok |-> TRUE, addr |-> [text |-> h, v6 |-> TRUE, embeds |-> NoIP]]
    [] h = "::ffff:1.2.3.4" ->
         [ok |-> TRUE, addr |-> [text |-> h, v6 |-> TRUE, embeds |-> "1.2.3.4"]]
    [] OTHER ->
         [ok |-> FALSE, addr |-> [text |-> NoIP, v6 |-> FALSE, embeds |-> NoIP]]

\* Addr.Unmap()
Unmap(a) ==
  IF a.v6 /\ a.embeds # NoIP
    THEN [text |-> a.embeds, v6 |-> FALSE, embeds |-> NoIP]
    ELSE a

\* Addr.Is4()
Is4(a) == ~a.v6

\* mutant: the literal is not unmapped
resolveIPLiteralNoUnmap(host, dnsType) ==
  LET ip == ParseAddr(host).addr
  IN IF dnsType = "AAAA" /\ ~Is4(ip) THEN IPResult(ip.text, NoErr)
     ELSE IF dnsType = "A" /\ Is4(ip) THEN IPResult(ip.text, NoErr)
     ELSE IPResult(NoIP, "ErrIPVersion")

\* resolveIP lines 263-274, for a host that parses as an address
resolveIPLiteral(host, dnsType) ==
  LET ip == Unmap(ParseAddr(host).addr)
  IN IF dnsType = "AAAA" /\ ~Is4(ip) THEN IPResult(ip.text, NoErr)
     ELSE IF dnsType = "A" /\ Is4(ip) THEN IPResult(ip.text, NoErr)
     ELSE IPResult(NoIP, "ErrIPVersion")

\* what ExchangeContext can come back with for a lookup of type dnsType: an
\* error, an answer without address records, an answer with two
LookupOutcomes(dnsType) ==
  { Result(TRUE, "main", 0, <<>>, <<>>),
    Result(FALSE, "main", 0, <<RR(NoIP, 2)>>, <<>>),
    IF dnsType = "A"
      THEN Result(FALSE, "main", 0,
                  <<RR(NoIP, 2), RR("8.8.8.8", 2), RR("8.8.4.4", 2)>>, <<>>)
      ELSE Result(FALSE, "main", 0,
                  <<RR(NoIP, 2), RR("2001:db8::1", 2), RR("2001:db8::2", 2)>>,
                  <<>>) }

\* resolveIP lines 279-296: the results it can return for the message (or
\* error) of the exchange; with several addresses the index may be random
resolveIPAnswer(res) ==
  IF res.err THEN {IPResult(NoIP, "exchange failed")}
  ELSE IF Len(msgToIP(res)) = 0 THEN {IPResult(NoIP, "ErrIPNotFound")}
  ELSE {IPResult(msgToIP(res)[i], NoErr) : i \in 1..Len(msgToIP(res))}

\* ResolveIP lines 51-59: make the channel, start the AAAA goroutine
ResolveIPStart(r) ==
  /\ rpcA[r] = "start"
  /\ rpcA' = [rpcA EXCEPT ![r] = "lookup"]
  /\ rpc6' = [rpc6 EXCEPT ![r] = "lookup"]
  /\ UNCHANGED <<rhost, ch, chClosed, lkA, lk6, ripRet, nexch, waited>>
  /\ UNCHANGED notRip

\* mutant: ResolveIP goes on to the channel whatever the A lookup returned
afterAWaits(r, res) ==
  /\ lkA' = [lkA EXCEPT ![r] = res]
  /\ rpcA' = [rpcA EXCEPT ![r] = "recv"]
  /\ waited' = [waited EXCEPT ![r] = TRUE]
  /\ UNCHANGED ripRet

\* ResolveIP lines 61-64: resolveIP(ctx, host, TypeA) returned res
afterA(r, res) ==
  /\ lkA' = [lkA EXCEPT ![r] = res]
  /\ IF res.err = NoErr
       THEN /\ ripRet' = [ripRet EXCEPT ![r] = res]
            /\ rpcA' = [rpcA EXCEPT ![r] = "done"]
            /\ UNCHANGED waited
       ELSE /\ rpcA' = [rpcA EXCEPT ![r] = "recv"]
            /\ waited' = [waited EXCEPT ![r] = TRUE]
            /\ UNCHANGED ripRet

\* lines 55-58: resolveIP(ctx, host, TypeAAAA) returned res; on an error the
\* goroutine returns and its deferred close(ch) runs, otherwise it goes on to
\* the send of line 59
after6(r, res) ==
  /\ lk6' = [lk6 EXCEPT ![r] = res]
  /\ UNCHANGED ch
  /\ IF res.err = NoErr
       THEN /\ rpc6' = [rpc6 EXCEPT ![r] = "send"]
            /\ UNCHANGED chClosed
       ELSE /\ rpc6' = [rpc6 EXCEPT ![r] = "done"]
            /\ chClosed' = [chClosed EXCEPT ![r] = TRUE]

\* mutant: the channel is unbuffered, a send needs the receiver to be waiting
canSendUnbuffered(r) == rpcA[r] = "recv"

\* line 51, ch := make(chan netip.Addr, 1): a send goes through when the
\* buffer has room or the receiver is waiting
canSend(r) == Len(ch[r]) < 1 \/ rpcA[r] = "recv"

\* line 59 and the deferred close(ch): the goroutine sends the AAAA address
\* and returns
Send6(r) ==
  /\ rpc6[r] = "send"
  /\ canSend(r)
  /\ ch' = [ch EXCEPT ![r] = Append(@, lk6[r].ip)]
  /\ chClosed' = [chClosed EXCEPT ![r] = TRUE]
  /\ rpc6' = [rpc6 EXCEPT ![r] = "done"]
  /\ UNCHANGED <<rhost, rpcA, lkA, lk6, ripRet, nexch, waited>>
  /\ UNCHANGED notRip

\* the A lookup, resolveIP lines 263-277: a literal returns at once, a name
\* is sent to ExchangeContext
LookupA(r) ==
  /\ rpcA[r] = "lookup"
  /\ IF ParseAddr(rhost[r]).ok
       THEN /\ afterA(r, resolveIPLiteral(rhost[r], "A"))
            /\ UNCHANGED nexch
       ELSE /\ nexch' = [nexch EXCEPT ![r].A = @ + 1]
            /\ rpcA' = [rpcA EXCEPT ![r] = "exchange"]
            /\ UNCHANGED <<lkA, ripRet, waited>>
  /\ UNCHANGED <<rhost, rpc6, ch, chClosed, lk6>>
  /\ UNCHANGED notRip

\* the A lookup, resolveIP lines 278-296: the exchange returns
ExchangedA(r) ==
  /\ rpcA[r] = "exchange"
  /\ \E m \in LookupOutcomes("A") : \E res \in resolveIPAnswer(m) : afterA(r, res)
  /\ UNCHANGED <<rhost, rpc6, ch, chClosed, lk6, nexch>>
  /\ UNCHANGED notRip

\* the AAAA lookup in the goroutine, resolveIP lines 263-277
Lookup6(r) ==
  /\ rpc6[r] = "lookup"
  /\ IF ParseAddr(rhost[r]).ok
       THEN /\ after6(r, resolveIPLiteral(rhost[r], "AAAA"))
            /\ UNCHANGED nexch
       ELSE /\ nexch' = [nexch EXCEPT ![r].AAAA = @ + 1]
            /\ rpc6' = [rpc6 EXCEPT ![r] = "exchange"]
            /\ UNCHANGED <<lk6, ch, chClosed>>
  /\ UNCHANGED <<rhost, rpcA, lkA, ripRet, waited>>
  /\ UNCHANGED notRip

\* the AAAA lookup in the goroutine, resolveIP lines 278-296
Exchanged6(r) ==
  /\ rpc6[r] = "exchange"
  /\ \E m \in LookupOutcomes("AAAA") : \E res \in resolveIPAnswer(m) : after6(r, res)
  /\ UNCHANGED <<rhost, rpcA, lkA, ripRet, nexch, waited>>
  /\ UNCHANGED notRip

\* ResolveIP lines 66-71: receive from the channel; a value when the AAAA
\* lookup sent one, not-found when the channel was closed empty
ResolveIPRecv(r) ==
  /\ rpcA[r] = "recv"
  /\ Len(ch[r]) > 0 \/ chClosed[r]
  /\ IF Len(ch[r]) > 0
       THEN /\ ripRet' = [ripRet EXCEPT ![r] = IPResult(Head(ch[r]), NoErr)]
            /\ ch' = [ch EXCEPT ![r] = Tail(@)]
       ELSE /\ ripRet' = [ripRet EXCEPT ![r] = IPResult(NoIP, "ErrIPNotFound")]
            /\ UNCHANGED ch
  /\ rpcA' = [rpcA EXCEPT ![r] = "done"]
  /\ UNCHANGED <<rhost, rpc6, chClosed, lkA, lk6, nexch, waited>>
  /\ UNCHANGED notRip

InitRip ==
  /\ rhost \in [Resolves -> ResolveHosts]
  /\ rpcA = [r \in Resolves |-> "start"]
  /\ rpc6 = [r \in Resolves |-> "off"]
  /\ ch = [r \in Resolves |-> <<>>]
  /\ chClosed = [r \in Resolves |-> FALSE]
  /\ lkA = [r \in Resolves |-> IPResult(NoIP, NoErr)]
  /\ lk6 = [r \in Resolves |-> IPResult(NoIP, NoErr)]
  /\ ripRet = [r \in Resolves |-> IPResult(NoIP, NoErr)]
  /\ nexch = [r \in Resolves |-> [A |-> 0, AAAA |-> 0]]
  /\ waited = [r \in Resolves |-> FALSE]
  /\ ParkedUDP
  /\ ParkedTun
  /\ ParkedDNS
  /\ ParkedBat
  /\ ParkedMode
  /\ ParkedPre
  /\ ParkedDoH
  /\ ParkedCli
  /\ ParkedLock
  /\ ParkedTcp
  /\ ParkedDual
  /\ ParkedHC
  /\ ParkedGeo

NextRip ==
  \E r \in Resolves :
    \/ ResolveIPStart(r)
    \/ LookupA(r)
    \/ ExchangedA(r)
    \/ Lookup6(r)
    \/ Exchanged6(r)
    \/ Send6(r)
    \/ ResolveIPRecv(r)

SpecRip == InitRip /\ [][NextRip]_vars

\* two concurrent ResolveIP calls, whatever the number of calls followed
InitRipTwo ==
  /\ rhost \in {h \in [Resolves -> ResolveHosts] :
               \A r \in Resolves : r > 2 => h[r] = "example.com"}
  /\ rpcA = [r \in Resolves |-> IF r <= 2 THEN "start" ELSE "off"]
  /\ rpc6 = [r \in Resolves |-> "off"]
  /\ ch = [r \in Resolves |-> <<>>]
  /\ chClosed = [r \in Resolves |-> FALSE]
  /\ lkA = [r \in Resolves |-> IPResult(NoIP, NoErr)]
  /\ lk6 = [r \in Resolves |-> IPResult(NoIP, NoErr)]
  /\ ripRet = [r \in Resolves |-> IPResult(NoIP, NoErr)]
  /\ nexch = [r \in Resolves |-> [A |-> 0, AAAA |-> 0]]
  /\ waited = [r \in Resolves |-> FALSE]
  /\ ParkedUDP
  /\ ParkedTun
  /\ ParkedDNS
  /\ ParkedBat
  /\ ParkedMode
  /\ ParkedPre
  /\ ParkedDoH
  /\ ParkedCli
  /\ ParkedLock
  /\ ParkedTcp
  /\ ParkedDual
  /\ ParkedHC
  /\ ParkedGeo

\* the scheduler runs every goroutine that can take a step: a send that can
\* go through and a receive that can complete are eventually performed
FairRip ==
  /\ InitRipTwo /\ [][NextRip]_vars
  /\ \A r \in Resolves : WF_vars(Send6(r)) /\ WF_vars(ResolveIPRecv(r))

\* C11: ResolveIP starts the AAAA lookup before it runs the A lookup, so both
\* run concurrently; whenever the A lookup succeeds ResolveIP returns its IPv4
\* address in the step in which the A lookup completes, without going to the
\* channel the AAAA lookup reports on, whether or not the AAAA lookup has
\* finished or succeeds.
C11_AReturnedWithoutWaiting ==
  \A r \in Resolves :
    /\ rpcA[r] \notin {"off", "start"} => rpc6[r] # "off"
    /\ (rpcA[r] \in {"recv", "done"} /\ lkA[r].err = NoErr) =>
         /\ rpcA[r] = "done"
         /\ ripRet[r] = lkA[r]
         /\ ripRet[r].ip \in {"1.2.3.4", "8.8.8.8", "8.8.4.4"}
         /\ ~waited[r]

\* ResolveIP has returned the A lookup's address of a name while the AAAA
\* exchange is still in flight
C11_Witness ==
  \E r \in Resolves :
    /\ rhost[r] = "example.com"
    /\ rpcA[r] = "done"
    /\ ripRet[r] = IPResult("8.8.8.8", NoErr)
    /\ rpc6[r] = "exchange"

\* both lookups of ResolveIP call r have returned
BothLookedUp(r) ==
  /\ rpcA[r] \in {"recv", "done"}
  /\ rpc6[r] \in {"send", "done"}

\* C32: ResolveIP waits for the AAAA lookup only when the A lookup has
\* failed; it then returns the AAAA address if the AAAA lookup succeeded and
\* the not-found error if it failed too. Once both lookups have completed
\* ResolveIP returns and the AAAA task ends: its send never blocks.
C32_AAAAOnlyAwaitedWhenAFails ==
  \A r \in Resolves :
    /\ [](waited[r] => lkA[r].err # NoErr)
    /\ []((rpcA[r] = "done" /\ lkA[r].err # NoErr) =>
           /\ waited[r] /\ rpc6[r] = "done"
           /\ ripRet[r] = IF lk6[r].err = NoErr THEN lk6[r]
                          ELSE IPResult(NoIP, "ErrIPNotFound"))
    /\ (BothLookedUp(r) ~> (rpcA[r] = "done" /\ rpc6[r] = "done"))

\* the A lookup of a name succeeded and ResolveIP returned while the AAAA
\* task, whose lookup succeeded too, had not sent yet; the task has now
\* sent into the buffer nobody reads and ended
C32_Witness ==
  \E r \in Resolves :
    /\ rhost[r] = "example.com"
    /\ rpcA[r] = "done" /\ lkA[r].err = NoErr /\ ~waited[r]
    /\ rpc6[r] = "done" /\ lk6[r].err = NoErr
    /\ ch[r] = <<lk6[r].ip>>

\* C19: for a literal IP host resolveIP makes no exchange; it returns the
\* unmapped literal when the literal's family is the requested one (A with
\* IPv4, AAAA with IPv6) and the IP-version error otherwise, never not-found.
C19_LiteralShortCircuits ==
  \A r \in Resolves :
    rhost[r] \in {"1.2.3.4", "::1", "::ffff:1.2.3.4"} =>
      /\ nexch[r] = [A |-> 0, AAAA |-> 0]
      /\ rpcA[r] \in {"recv", "done"} =>
           lkA[r] = IF rhost[r] = "::1" THEN IPResult(NoIP, "ErrIPVersion")
                    ELSE IPResult("1.2.3.4", NoErr)
      /\ rpc6[r] = "done" =>
           lk6[r] = IF rhost[r] = "::1" THEN IPResult("::1", NoErr)
                    ELSE IPResult(NoIP, "ErrIPVersion")

\* both lookups of an IPv4-mapped IPv6 literal have returned: the A lookup
\* the embedded IPv4 address, the AAAA lookup the IP-version error
C19_Witness ==
  \E r \in Resolves :
    /\ rhost[r] = "::ffff:1.2.3.4"
    /\ rpcA[r] = "done" /\ rpc6[r] = "done"
    /\ lkA[r] = IPResult("1.2.3.4", NoErr)
    /\ lk6[r].err = "ErrIPVersion"

(***************************************************************************)
(* Resolver.batchExchange: the transports of a group raced by a picker.     *)
(***************************************************************************)
\* what client.ExchangeContext of transport i can return: a response with
\* some response code, an error of its own, or ctx.Err() once the context is
\* done (client.go lines 96-101)
clientExchange(i) ==
  { MsgResult(Msg(i, rc), NoErr) :
      rc \in {"NOERROR", "NXDOMAIN", "SERVFAIL", "REFUSED"} }
  \cup {MsgResult(NilMsg, "i/o timeout")}
  \cup (IF ctxDone # "" THEN {MsgResult(NilMsg, ctxDone)} ELSE {})

\* mutant: only server-failure counts as a failed exchange
batchFnRefusedPasses(res) ==
  IF res.err # NoErr THEN MsgResult(NilMsg, res.err)
  ELSE IF res.msg.rcode = "SERVFAIL" THEN MsgResult(NilMsg, "server failure")
  ELSE res

\* batchExchange lines 162-170, the function given to fast.Go, applied to
\* what the transport's ExchangeContext returned
batchFn(res) ==
  IF res.err # NoErr THEN MsgResult(NilMsg, res.err)
  ELSE IF res.msg.rcode = "SERVFAIL" \/ res.msg.rcode = "REFUSED"
    THEN MsgResult(NilMsg, "server failure")
  ELSE res

\* a transport returns; picker.Go records the first success and cancels the
\* context, or records the first error
TransportReturn(i) ==
  /\ xpc[i] = "run"
  /\ \E raw \in clientExchange(i) :
       LET res == batchFn(raw) IN
         /\ xret' = [xret EXCEPT ![i] = res]
         /\ IF res.err = NoErr
              THEN /\ pResult' = IF pResult = NilMsg THEN res.msg ELSE pResult
                   /\ ctxDone' = IF pResult = NilMsg /\ ctxDone = ""
                                   THEN "context canceled" ELSE ctxDone
                   /\ UNCHANGED pFirstErr
              ELSE /\ pFirstErr' = IF pFirstErr = NoErr THEN res.err ELSE pFirstErr
                   /\ UNCHANGED <<pResult, ctxDone>>
  /\ xpc' = [xpc EXCEPT ![i] = "done"]
  /\ order' = Append(order, i)
  /\ UNCHANGED <<clients, bpc, bret>>
  /\ UNCHANGED notBat

\* the deadline of picker.WithTimeout(ctx, resolver.DefaultDNSTimeout) passes
GroupTimeout ==
  /\ bpc = "wait"
  /\ ctxDone = ""
  /\ ctxDone' = "context deadline exceeded"
  /\ UNCHANGED <<clients, xpc, xret, pResult, pFirstErr, bpc, bret, order>>
  /\ UNCHANGED notBat

\* batchExchange lines 173-183: fast.Wait() returns once every transport has
\* returned
batchExchangeReturn ==
  /\ bpc = "wait"
  /\ \A i \in clients : xpc[i] = "done"
  /\ bret' = IF pResult = NilMsg
               THEN MsgResult(NilMsg, WrapErr("all DNS requests failed", pFirstErr))
               ELSE MsgResult(pResult, WrapErr(NoErr, NoErr))
  /\ bpc' = "done"
  /\ ctxDone' = IF ctxDone = "" THEN "context canceled" ELSE ctxDone
  /\ UNCHANGED <<clients, xpc, xret, pResult, pFirstErr, order>>
  /\ UNCHANGED notBat

\* batchExchange lines 159-171: one goroutine per transport of the group
InitBat ==
  /\ clients \in SUBSET Transports
  /\ ctxDone = ""
  /\ xpc = [i \in Transports |-> IF i \in clients THEN "run" ELSE "off"]
  /\ xret = [i \in Transports |-> MsgResult(NilMsg, NoErr)]
  /\ pResult = NilMsg
  /\ pFirstErr = NoErr
  /\ bpc = "wait"
  /\ bret = MsgResult(NilMsg, WrapErr(NoErr, NoErr))
  /\ order = <<>>
  /\ ParkedUDP
  /\ ParkedTun
  /\ ParkedDNS
  /\ ParkedRip
  /\ ParkedMode
  /\ ParkedPre
  /\ ParkedDoH
  /\ ParkedCli
  /\ ParkedLock
  /\ ParkedTcp
  /\ ParkedDual
  /\ ParkedHC
  /\ ParkedGeo

NextBat ==
  \/ \E i \in Transports : TransportReturn(i)
  \/ GroupTimeout
  \/ batchExchangeReturn

SpecBat == InitBat /\ [][NextBat]_vars

\* the positions in order of the transports that returned a response with a
\* response code other than server-failure and refused
Winners == {k \in DOMAIN order : xret[order[k]].err = NoErr}

MetadataString(m) ==
  IF m.Host # "" THEN m.Host ELSE IF m.DstIP # NoIP THEN m.DstIP ELSE "<nil>"

\* mutant: the override does not look at the network
mitmOverrideAnyNetwork(m) ==
  /\ mitmProxy # NilProxy
  /\ m.Type # "MITM"
  /\ \/ (~rewriteHosts.nil /\ MetadataString(m) \in rewriteHosts.hosts)
     \/ m.DstPort = "80"

\* resolveMetadata lines 211-212: the interception override takes metadata m
mitmOverride(m) ==
  /\ m.NetWork = "TCP"
  /\ mitmProxy # NilProxy
  /\ m.Type # "MITM"
  /\ \/ (~rewriteHosts.nil /\ MetadataString(m) \in rewriteHosts.hosts)
     \/ m.DstPort = "80"

\* mutant: Global mode takes the direct outbound
modeProxyAlwaysDirect(mo) == proxyOf("DIRECT")

\* resolveMetadata lines 218-221: the outbound of mode Direct or Global
modeProxy(mo) ==
  IF mo = "Direct" THEN proxyOf("DIRECT") ELSE proxyOf("GLOBAL")

\* what scriptMainMatcher.Eval can return
ScriptOutcomes ==
  { ScriptResult("P1", NoErr), ScriptResult("P9", NoErr),
    ScriptResult("", "script error") }

\* mutant: the name the script returned is looked up without the ok check
matchScriptReturnNoCheck(out) ==
  IF out.err # NoErr THEN [proxy |-> NilProxy, err |-> out.err]
  ELSE [proxy |-> proxyOf(out.name), err |-> NoErr]

\* matchScript lines 469-478: <<proxy, err>> for what Eval returned
matchScriptReturn(out) ==
  IF out.err # NoErr THEN [proxy |-> NilProxy, err |-> out.err]
  ELSE IF out.name \notin DOMAIN proxies
    THEN [proxy |-> NilProxy, err |-> "proxy adapter not found by script"]
  ELSE [proxy |-> proxyOf(out.name), err |-> NoErr]

\* resolveMetadata lines 210-229; matchScript (lines 461-479) runs under the
\* read lock in one step, match goes on in its own steps
resolveMetadata(f) ==
  /\ fpc[f] = "resolve"
  /\ md0' = [md0 EXCEPT ![f] = md[f]]
  /\ IF mitmOverride(md[f])
       THEN /\ retProxy' = [retProxy EXCEPT ![f] = mitmProxy]
            /\ fpc' = [fpc EXCEPT ![f] = "resolved"]
            /\ UNCHANGED <<md, mpc, retErr, scriptOut>>
       ELSE CASE mode \in {"Direct", "Global"} ->
                   /\ retProxy' = [retProxy EXCEPT ![f] = modeProxy(mode)]
                   /\ fpc' = [fpc EXCEPT ![f] = "resolved"]
                   /\ UNCHANGED <<md, mpc, retErr, scriptOut>>
              [] mode = "Script" ->
                   \E out \in ScriptOutcomes :
                     /\ md' = IF defaultHosts[md[f].Host] # NoIP
                                THEN [md EXCEPT ![f].DstIP = defaultHosts[md[f].Host]]
                                ELSE md
                     /\ scriptOut' = [scriptOut EXCEPT ![f] = out]
                     /\ retProxy' = [retProxy EXCEPT ![f] = matchScriptReturn(out).proxy]
                     /\ retErr' = [retErr EXCEPT ![f] = matchScriptReturn(out).err]
                     /\ fpc' = [fpc EXCEPT ![f] = "resolved"]
                     /\ UNCHANGED mpc
              [] OTHER ->
                   /\ mpc' = [mpc EXCEPT ![f] = "start"]
                   /\ fpc' = [fpc EXCEPT ![f] = "match"]
                   /\ UNCHANGED <<md, retProxy, retErr, scriptOut>>
  /\ UNCHANGED <<rules, proxies, defaultHosts, readers, rpc, newCfg, resolved,
                 processFound, idx, retRule, seen,
                 lookups>>
  /\ UNCHANGED <<mode, mitmProxy, rewriteHosts, dialed>>
  /\ UNCHANGED notMode

\* handleTCPConn lines 347-357 (handleUDPConn lines 290-307): return on an
\* error of resolveMetadata, dial the outbound otherwise
dial(f) ==
  /\ fpc[f] = "resolved" \/ (fpc[f] = "match" /\ mpc[f] = "done")
  /\ IF retErr[f] # NoErr
       THEN /\ fpc' = [fpc EXCEPT ![f] = "dropped"]
            /\ UNCHANGED dialed
       ELSE /\ dialed' = [dialed EXCEPT ![f] = retProxy[f]]
            /\ fpc' = [fpc EXCEPT ![f] = "dialed"]
  /\ UNCHANGED tunVars
  /\ UNCHANGED <<mode, mitmProxy, rewriteHosts, scriptOut, md0>>
  /\ UNCHANGED notMode

\* the metadata resolveMetadata is called with
ModeMetadatas ==
  {[m EXCEPT !.Type = t, !.DstPort = port] :
     m \in Metadatas, t \in {"SOCKS5", "MITM"}, port \in {"80", "443"}}

\* the rule lists of the flows dispatched in Rule mode
ModeRuleLists ==
  { <<>>,
    CfgA.rules,
    <<Rule("IPCIDR", "1.1.1.1", "P1", FALSE), Rule("MATCH", "", "DIRECT", FALSE)>> }

\* one flow resolved in a drawn mode, with a drawn interception setting
InitMode ==
  /\ mode \in Modes
  /\ mitmProxy \in {NilProxy, "MITM"}
  /\ rewriteHosts \in {NoTrie, [nil |-> FALSE, hosts |-> {"example.com"}]}
  /\ fpc = [f \in Flows |-> IF f = 1 THEN "resolve" ELSE "off"]
  /\ scriptOut = [f \in Flows |-> ScriptResult("", NoErr)]
  /\ dialed = [f \in Flows |-> NilProxy]
  /\ md0 = [f \in Flows |-> NoMetadata]
  /\ rules \in ModeRuleLists
  /\ proxies = [n \in {"P1", "DIRECT", "REJECT", "GLOBAL"} |-> Outbound(TRUE)]
  /\ defaultHosts \in HostsTables
  /\ readers = {}
  /\ rpc = "off"
  /\ newCfg = CfgA
  /\ mpc = [f \in Flows |-> "off"]
  /\ md \in {[f \in Flows |-> IF f = 1 THEN m ELSE NoMetadata] :
               m \in ModeMetadatas}
  /\ resolved = [f \in Flows |-> FALSE]
  /\ processFound = [f \in Flows |-> FALSE]
  /\ idx = [f \in Flows |-> 1]
  /\ retProxy = [f \in Flows |-> NilProxy]
  /\ retRule = [f \in Flows |-> 0]
  /\ retErr = [f \in Flows |-> NoErr]
  /\ seen = [f \in Flows |-> <<>>]
  /\ lookups = [f \in Flows |-> <<>>]
  /\ ParkedUDP
  /\ ParkedDNS
  /\ ParkedRip
  /\ ParkedBat
  /\ ParkedPre
  /\ ParkedDoH
  /\ ParkedCli
  /\ ParkedLock
  /\ ParkedTcp
  /\ ParkedDual
  /\ ParkedHC
  /\ ParkedGeo

NextMode ==
  \E f \in Flows :
    \/ resolveMetadata(f)
    \/ MatchStart(f)
    \/ MatchRule(f)
    \/ MatchFallback(f)
    \/ dial(f)

SpecMode == InitMode /\ [][NextMode]_vars

\* resolveMetadata has returned for flow f
Resolved(f) ==
  fpc[f] \in {"resolved", "dropped", "dialed"} \/ (fpc[f] = "match" /\ mpc[f] = "done")

\* no rule was evaluated for flow f, and none resolved its IP or looked its
\* process up
NoRuleTouched(f) ==
  /\ mpc[f] = "off" /\ seen[f] = <<>> /\ idx[f] = 1
  /\ ~resolved[f] /\ ~processFound[f]
  /\ md[f].DstIP = md0[f].DstIP /\ md[f].Process = md0[f].Process

\* C12: in Direct mode resolveMetadata returns the proxy registered as DIRECT
\* and in Global mode the one registered as GLOBAL, with a nil rule and no
\* error, for every metadata the interception override does not take; no rule
\* is evaluated and no rule-triggered IP resolution or process lookup happens.
C12_DirectGlobalBypassRules ==
  \A f \in Flows :
    (Resolved(f) /\ mode \in {"Direct", "Global"} /\ ~mitmOverride(md0[f])) =>
      /\ mode = "Direct" => retProxy[f] = "DIRECT"
      /\ mode = "Global" => retProxy[f] = "GLOBAL"
      /\ retRule[f] = 0 /\ retErr[f] = NoErr
      /\ NoRuleTouched(f)
      /\ md[f] = md0[f]

\* a flow for example.com was resolved in Global mode to GLOBAL and dialed,
\* although the rule list has a rule for it
C12_Witness ==
  \E f \in Flows :
    /\ mode = "Global" /\ fpc[f] = "dialed"
    /\ md[f].Host = "example.com"
    /\ rules = CfgA.rules
    /\ retProxy[f] = "GLOBAL" /\ dialed[f] = "GLOBAL"

\* C13: in Script mode matchScript returns a proxy only if the name the
\* matcher returned is a key of the proxy set (and then that proxy); when the
\* matcher returns an error or a name not in the proxy set, it returns an
\* error and no proxy, and the flow is not dialed.
C13_ScriptNameMustExist ==
  \A f \in Flows :
    (Resolved(f) /\ mode = "Script" /\ ~mitmOverride(md0[f])) =>
      /\ retProxy[f] # NilProxy =>
           /\ scriptOut[f].err = NoErr
           /\ scriptOut[f].name \in DOMAIN proxies
           /\ retProxy[f] = scriptOut[f].name
           /\ retErr[f] = NoErr
      /\ (scriptOut[f].err # NoErr \/ scriptOut[f].name \notin DOMAIN proxies) =>
           /\ retProxy[f] = NilProxy
           /\ retErr[f] # NoErr
           /\ dialed[f] = NilProxy
           /\ fpc[f] # "dialed"
      /\ retRule[f] = 0

\* the script named an outbound that is not in the proxy set and the flow
\* was dropped
C13_Witness ==
  \E f \in Flows :
    /\ mode = "Script" /\ fpc[f] = "dropped"
    /\ scriptOut[f] = ScriptResult("P9", NoErr)
    /\ retErr[f] = "proxy adapter not found by script"
    /\ dialed[f] = NilProxy

\* C14: resolveMetadata returns the interception outbound exactly for a TCP
\* flow, with an interception outbound set, whose type is not interception
\* and whose destination port is 80 or which matches the rewrite-host table;
\* then it does so in every mode, before any rule is evaluated or script run.
\* A UDP flow never gets it.
C14_InterceptionOnlyTCP ==
  \A f \in Flows :
    Resolved(f) =>
      LET m == md0[f]
          taken == /\ m.NetWork = "TCP"
                   /\ mitmProxy = "MITM"
                   /\ m.Type # "MITM"
                   /\ \/ m.DstPort = "80"
                      \/ (~rewriteHosts.nil /\
                          (IF m.Host # "" THEN m.Host ELSE m.DstIP)
                             \in rewriteHosts.hosts)
      IN /\ retProxy[f] = "MITM" <=> taken
         /\ taken => /\ NoRuleTouched(f)
                      /\ scriptOut[f] = ScriptResult("", NoErr)
                      /\ retRule[f] = 0 /\ retErr[f] = NoErr
         /\ m.NetWork = "UDP" => retProxy[f] # "MITM" /\ dialed[f] # "MITM"

\* in Rule mode a TCP flow to port 443 whose host is in the rewrite-host
\* table was given the interception outbound, no rule evaluated
C14_Witness ==
  \E f \in Flows :
    /\ mode = "Rule" /\ fpc[f] = "dialed"
    /\ md0[f].NetWork = "TCP" /\ md0[f].DstPort = "443"
    /\ md0[f].Host = "example.com"
    /\ rules = CfgA.rules
    /\ dialed[f] = "MITM"
    /\ seen[f] = <<>>

(***************************************************************************)
(* tunnel.preHandleMetadata and the steps of handleUDPConn before the       *)
(* session table.                                                           *)
(***************************************************************************)
\* the enhancer's settings and tables: mapping off; fake-IP mode with the
\* record of the pool address present; fake-IP mode with the record gone;
\* mapping mode without fake IPs
EnhancerStates ==
  { [mapping |-> FALSE, fakeip |-> FALSE,
     reverse |-> [ip \in PacketIPs |-> ""], pool |-> {}],
    [mapping |-> TRUE, fakeip |-> TRUE,
     reverse |-> [ip \in PacketIPs |-> IF ip = "198.18.0.5" THEN "example.com" ELSE ""],
     pool |-> {"198.18.0.5"}],
    [mapping |-> TRUE, fakeip |-> TRUE,
     reverse |-> [ip \in PacketIPs |-> ""], pool |-> {"198.18.0.5"}],
    [mapping |-> TRUE, fakeip |-> FALSE,
     reverse |-> [ip \in PacketIPs |-> IF ip = "8.8.8.8" THEN "other.com" ELSE ""],
     pool |-> {}] }

\* resolver.MappingEnabled()
MappingEnabled == enh.mapping
\* resolver.FakeIPEnabled()
FakeIPEnabled == enh.fakeip
\* resolver.FindHostByIP(ip): <<host, exist>>
FindHostByIP(ip) == <<enh.reverse[ip], enh.reverse[ip] # "">>
\* resolver.IsFakeIP(ip)
IsFakeIP(ip) == ip \in enh.pool

\* lines 178-180
needLookupIP(m) == MappingEnabled /\ m.Host = "" /\ m.DstIP # NoIP

\* lines 183-187: an IP literal in the host field moves to the IP field
hostLiteral(m) ==
  IF ParseAddr(m.Host).ok THEN [m EXCEPT !.DstIP = m.Host, !.Host = ""] ELSE m

\* mutant: a missing fake-IP record is not an error
preHandleMetadataIgnoreMissing(m) ==
  LET m1 == hostLiteral(m) IN
  IF ~needLookupIP(m1) \/ ~FindHostByIP(m1.DstIP)[2]
    THEN [err |-> NoErr, m |-> m1]
  ELSE IF FakeIPEnabled
    THEN [err |-> NoErr,
          m |-> [m1 EXCEPT !.Host = FindHostByIP(m1.DstIP)[1], !.DstIP = NoIP,
                           !.DNSMode = "fake-ip"]]
  ELSE [err |-> NoErr,
        m |-> [m1 EXCEPT !.Host = FindHostByIP(m1.DstIP)[1], !.DNSMode = "mapping"]]

\* lines 182-208: the error returned and the metadata as it is left
preHandleMetadata(m) ==
  LET m1 == hostLiteral(m)
      r == FindHostByIP(m1.DstIP)
  IN
  IF ~needLookupIP(m1) THEN [err |-> NoErr, m |-> m1]
  ELSE IF r[2]
    THEN IF FakeIPEnabled
           THEN [err |-> NoErr,
                 m |-> [m1 EXCEPT !.Host = r[1], !.DstIP = NoIP,
                                  !.DNSMode = "fake-ip"]]
         ELSE IF defaultHosts[r[1]] # NoIP
           THEN [err |-> NoErr,
                 m |-> [m1 EXCEPT !.Host = r[1], !.DstIP = defaultHosts[r[1]],
                                  !.DNSMode = "mapping"]]
         ELSE [err |-> NoErr,
               m |-> [m1 EXCEPT !.Host = r[1], !.DNSMode = "mapping"]]
  ELSE IF IsFakeIP(m1.DstIP)
    THEN [err |-> "fake DNS record missing", m |-> m1]
  ELSE [err |-> NoErr, m |-> m1]

\* handleUDPConn lines 244-247: preHandleMetadata; return on its error
PreHandle(p) ==
  /\ pc[p] = "pre"
  /\ LET r == preHandleMetadata(pmd[p]) IN
       /\ pmd' = [pmd EXCEPT ![p] = r.m]
       /\ pc' = [pc EXCEPT ![p] =
                   IF r.err # NoErr THEN "dropped"
                   ELSE IF r.m.DstIP = NoIP THEN "lresolve"
                   ELSE "start"]
  /\ UNCHANGED <<pktKey, natSession, natLock, cond, loaded, condL, condWait,
                 sessions, fwd>>
  /\ UNCHANGED enh
  /\ UNCHANGED notPre

\* handleUDPConn lines 249-256: the local resolution of an unresolved host
LocalResolve(p) ==
  /\ pc[p] = "lresolve"
  /\ \E ok \in BOOLEAN :
       IF ok
         THEN /\ pmd' = [pmd EXCEPT ![p].DstIP = DNSAnswer[pmd[p].Host]]
              /\ pc' = [pc EXCEPT ![p] = "start"]
         ELSE /\ pc' = [pc EXCEPT ![p] = "dropped"]
              /\ UNCHANGED pmd
  /\ UNCHANGED <<pktKey, natSession, natLock, cond, loaded, condL, condWait,
                 sessions, fwd>>
  /\ UNCHANGED enh
  /\ UNCHANGED notPre

\* the metadata packets arrive with: a host name, an address of the fake-IP
\* pool, an address outside it, a pool address written as the host
PreMetadatas ==
  { PacketMetadata("example.com", NoIP),
    PacketMetadata("", "198.18.0.5"),
    PacketMetadata("", "8.8.8.8"),
    PacketMetadata("198.18.0.5", NoIP) }

\* two packets of one flow key arrive; the first has a drawn destination
InitPre ==
  /\ pmd \in {[p \in Packets |-> IF p = 1 THEN m ELSE PacketMetadata("", "8.8.8.8")] :
                m \in PreMetadatas}
  /\ enh \in EnhancerStates
  /\ pktKey = [p \in Packets |-> "k1"]
  /\ pc = [p \in Packets |-> IF p <= 2 THEN "pre" ELSE "off"]
  /\ natSession = [k \in Keys |-> Nil]
  /\ natLock = [k \in Keys |-> Nil]
  /\ cond = [p \in Packets |-> Nil]
  /\ loaded = [p \in Packets |-> FALSE]
  /\ condL = [p \in Packets |-> Nil]
  /\ condWait = [p \in Packets |-> {}]
  /\ sessions = {}
  /\ fwd = [p \in Packets |-> Nil]
  /\ ParkedTun
  /\ ParkedDNS
  /\ ParkedRip
  /\ ParkedBat
  /\ ParkedMode
  /\ ParkedDoH
  /\ ParkedCli
  /\ ParkedLock
  /\ ParkedTcp
  /\ ParkedDual
  /\ ParkedHC
  /\ ParkedGeo

NextPre ==
  \/ \E p \in Packets :
       \/ PreHandle(p)
       \/ LocalResolve(p)
  \/ NextUDP

SpecPre == InitPre /\ [][NextPre]_vars

\* the destination of packet p is a fake-IP pool address whose record is gone
FakeRecordMissing(p) ==
  LET ip == IF pmd[p].Host \in PacketIPs THEN pmd[p].Host ELSE pmd[p].DstIP IN
    /\ enh.mapping
    /\ pmd[p].Host \in PacketIPs \cup {""}
    /\ ip \in PacketIPs
    /\ enh.reverse[ip] = ""
    /\ ip \in enh.pool

\* packet p has not gone past preHandleMetadata and has left no trace in the
\* session table
NothingDoneFor(p) ==
  /\ pc[p] \in {"pre", "dropped"}
  /\ cond[p] = Nil /\ ~loaded[p]
  /\ fwd[p] = Nil
  /\ p \notin sessions
  /\ \A k \in Keys : natLock[k] # p /\ natSession[k] # p

\* C20: with mapping enabled, a packet with a destination IP and no host
\* whose IP has no reverse record but is in the fake-IP pool is dropped by
\* the error of preHandleMetadata: it never reaches the rule dispatch or the
\* dial, creates no session and no in-progress marker, and once dropped it
\* stays dropped.
C20_FakeRecordMissingDrops ==
  [][\A p \in Packets :
       FakeRecordMissing(p) =>
         /\ NothingDoneFor(p)
         /\ NothingDoneFor(p)'
         /\ pc[p] = "dropped" => pc'[p] = "dropped"]_vars

\* the packet to the pool address was dropped while another packet of the
\* same key went on and created the session
C20_Witness ==
  /\ FakeRecordMissing(1)
  /\ pc[1] = "dropped"
  /\ pmd[1].Host = "" /\ pmd[1].DstIP = "198.18.0.5"
  /\ natSession["k1"] = 2
  /\ pc[2] = "done"

(***************************************************************************)
(* dohClient.ExchangeContext: the clients of one group are handed the same  *)
(* query message and run concurrently.                                      *)
(***************************************************************************)
\* mutant: the ID is zeroed in the caller's message
dohNewMInPlace(m) ==
  [newM |-> [m EXCEPT !.Id = 0], m |-> [m EXCEPT !.Id = 0]]

\* lines 35-36: newM := *m; newM.Id = 0. The message sent and the caller's
\* message afterwards
dohNewM(m) ==
  [newM |-> [m EXCEPT !.Id = 0], m |-> m]

\* lines 35-40: copy the message, zero the copy's ID, build the request;
\* return the error when the message cannot be packed
dohNewRequest(c) ==
  /\ dohPc[c] = "call"
  /\ dohM' = dohNewM(dohM).m
  /\ \E packed \in BOOLEAN :
       IF packed
         THEN /\ dohReq' = [dohReq EXCEPT ![c] = dohNewM(dohM).newM]
              /\ dohPc' = [dohPc EXCEPT ![c] = "sent"]
              /\ UNCHANGED dohRet
         ELSE /\ dohRet' = [dohRet EXCEPT ![c] = MsgResult(NilDohMsg, "pack error")]
              /\ dohPc' = [dohPc EXCEPT ![c] = "done"]
              /\ UNCHANGED dohReq
  /\ UNCHANGED dohM0
  /\ UNCHANGED notDoh

\* lines 43-47 with doRequest (lines 67-84): the transport fails, or the
\* body does not unpack (the partial message is returned with the error and
\* the ID the server sent), or the response gets the ID read from m
dohDoRequest(c) ==
  /\ dohPc[c] = "sent"
  /\ \E srvId \in {0, 9}, answer \in {"", "1.1.1.1"},
        outcome \in {"ok", "unpack error", "transport error"} :
       dohRet' = [dohRet EXCEPT ![c] =
         CASE outcome = "transport error" -> MsgResult(NilDohMsg, outcome)
           [] outcome = "unpack error" ->
                MsgResult(DohMsg(srvId, dohReq[c].Question, ""), outcome)
           [] OTHER ->
                MsgResult(DohMsg(dohM.Id, dohReq[c].Question, answer), NoErr)]
  /\ dohPc' = [dohPc EXCEPT ![c] = "done"]
  /\ UNCHANGED <<dohM, dohM0, dohReq>>
  /\ UNCHANGED notDoh

\* a caller's message with a drawn ID is handed to every client
InitDoH ==
  /\ dohM \in {DohMsg(id, q, "") : id \in MsgIds, q \in {"A", "AAAA"}}
  /\ dohM0 = dohM
  /\ dohPc = [c \in DohClients |-> "call"]
  /\ dohReq = [c \in DohClients |-> NilDohMsg]
  /\ dohRet = [c \in DohClients |-> MsgResult(NilDohMsg, NoErr)]
  /\ ParkedUDP
  /\ ParkedTun
  /\ ParkedDNS
  /\ ParkedRip
  /\ ParkedBat
  /\ ParkedMode
  /\ ParkedPre
  /\ ParkedCli
  /\ ParkedLock
  /\ ParkedTcp
  /\ ParkedDual
  /\ ParkedHC
  /\ ParkedGeo

NextDoH ==
  \E c \in DohClients :
    \/ dohNewRequest(c)
    \/ dohDoRequest(c)

SpecDoH == InitDoH /\ [][NextDoH]_vars

\* C21: every request a DoH client sends has ID 0 and the caller's question,
\* a response returned without error carries the ID the caller's message
\* was built with, and the caller's message is never changed.
C21_DohIdZeroedAndRestored ==
  /\ dohM = dohM0
  /\ \A c \in DohClients :
       /\ dohPc[c] = "sent" =>
            dohReq[c] = DohMsg(0, dohM0.Question, "")
       /\ (dohPc[c] = "done" /\ dohRet[c].err = NoErr) =>
            /\ dohReq[c].Id = 0
            /\ dohRet[c].msg.Id = dohM0.Id
            /\ dohRet[c].msg.Question = dohM0.Question

\* a query with ID 65535 went out with ID 0 from two clients and the second
\* client's response came back with ID 65535
C21_Witness ==
  /\ dohM0.Id = 65535
  /\ dohPc[1] = "done" /\ dohRet[1].err = NoErr
  /\ dohPc[2] = "done" /\ dohRet[2].err = NoErr
  /\ dohReq[2].Id = 0
  /\ dohRet[2].msg = DohMsg(65535, dohM0.Question, "1.1.1.1")

(***************************************************************************)
(* client.ExchangeContext: the upstream exchange in a goroutine, raced      *)
(* against the context.                                                     *)
(***************************************************************************)
\* what Client.ExchangeWithConn can come back with
upstreamExchange ==
  { MsgResult(Msg(1, "NOERROR"), NoErr),
    MsgResult(NilMsg, "i/o timeout"),
    MsgResult(NilMsg, "use of closed network connection") }

\* lines 58-72: dial the upstream; on an error return it, otherwise defer
\* conn.Close(), make ch (line 80) and start the goroutine (line 81)
cliDial(k) ==
  /\ cliPc[k] = "dial"
  /\ \/ /\ cliRet' = [cliRet EXCEPT ![k] =
                        MsgResult(NilMsg, IF cliCtx[k] # "" THEN cliCtx[k]
                                          ELSE "dial failed")]
        /\ cliPc' = [cliPc EXCEPT ![k] = "done"]
        /\ UNCHANGED cliG
     \/ /\ cliPc' = [cliPc EXCEPT ![k] = "select"]
        /\ cliG' = [cliG EXCEPT ![k] = "exchange"]
        /\ UNCHANGED cliRet
  /\ UNCHANGED <<cliCtx, cliUp, cliCh, cliConnClosed>>
  /\ UNCHANGED notCli

\* lines 82-91, in the goroutine: ExchangeWithConn returns; a connection
\* that was closed under it gives an error
cliExchangeWithConn(k) ==
  /\ cliG[k] = "exchange"
  /\ \E res \in upstreamExchange :
       /\ cliConnClosed[k] => res.err # NoErr
       /\ ~cliConnClosed[k] => res.err # "use of closed network connection"
       /\ cliUp' = [cliUp EXCEPT ![k] = res]
  /\ cliG' = [cliG EXCEPT ![k] = "send"]
  /\ UNCHANGED <<cliCtx, cliPc, cliCh, cliConnClosed, cliRet>>
  /\ UNCHANGED notCli

\* line 80, ch := make(chan result, 1): a send goes through when the buffer
\* has room or the caller is in the select
cliCanSend(k) == Len(cliCh[k]) < 1 \/ cliPc[k] = "select"

\* line 93, ch <- result{msg, err}, and the goroutine ends
cliSend(k) ==
  /\ cliG[k] = "send"
  /\ cliCanSend(k)
  /\ cliCh' = [cliCh EXCEPT ![k] = Append(@, cliUp[k])]
  /\ cliG' = [cliG EXCEPT ![k] = "done"]
  /\ UNCHANGED <<cliCtx, cliPc, cliUp, cliConnClosed, cliRet>>
  /\ UNCHANGED notCli

\* the context of call k is cancelled or its deadline passes
cliCtxEnds(k) ==
  /\ cliCtx[k] = ""
  /\ cliPc[k] # "off"
  /\ cliCtx' \in {[cliCtx EXCEPT ![k] = e] :
                   e \in {"context canceled", "context deadline exceeded"}}
  /\ UNCHANGED <<cliPc, cliG, cliUp, cliCh, cliConnClosed, cliRet>>
  /\ UNCHANGED notCli

\* mutant: the select has no case for the context
selectCtxDoneNever(k) == FALSE

\* line 97, case <-ctx.Done(): ready once the context is done
selectCtxDone(k) == cliCtx[k] # ""

\* lines 96-98: the select takes the context's case, ExchangeContext returns
\* ctx.Err() and the deferred conn.Close() runs
cliSelectCtx(k) ==
  /\ cliPc[k] = "select"
  /\ selectCtxDone(k)
  /\ cliRet' = [cliRet EXCEPT ![k] = MsgResult(NilMsg, cliCtx[k])]
  /\ cliConnClosed' = [cliConnClosed EXCEPT ![k] = TRUE]
  /\ cliPc' = [cliPc EXCEPT ![k] = "done"]
  /\ UNCHANGED <<cliCtx, cliG, cliUp, cliCh>>
  /\ UNCHANGED notCli

\* lines 99-100: the select takes the channel's case, ExchangeContext returns
\* the goroutine's result and the deferred conn.Close() runs
cliSelectRecv(k) ==
  /\ cliPc[k] = "select"
  /\ Len(cliCh[k]) > 0
  /\ cliRet' = [cliRet EXCEPT ![k] = Head(cliCh[k])]
  /\ cliCh' = [cliCh EXCEPT ![k] = Tail(@)]
  /\ cliConnClosed' = [cliConnClosed EXCEPT ![k] = TRUE]
  /\ cliPc' = [cliPc EXCEPT ![k] = "done"]
  /\ UNCHANGED <<cliCtx, cliG, cliUp>>
  /\ UNCHANGED notCli

InitCli ==
  /\ cliCtx = [k \in Exchanges |-> ""]
  /\ cliPc = [k \in Exchanges |-> IF k <= 2 THEN "dial" ELSE "off"]
  /\ cliG = [k \in Exchanges |-> "off"]
  /\ cliUp = [k \in Exchanges |-> MsgResult(NilMsg, NoErr)]
  /\ cliCh = [k \in Exchanges |-> <<>>]
  /\ cliConnClosed = [k \in Exchanges |-> FALSE]
  /\ cliRet = [k \in Exchanges |-> MsgResult(NilMsg, NoErr)]
  /\ ParkedUDP
  /\ ParkedTun
  /\ ParkedDNS
  /\ ParkedRip
  /\ ParkedBat
  /\ ParkedMode
  /\ ParkedPre
  /\ ParkedDoH
  /\ ParkedLock
  /\ ParkedTcp
  /\ ParkedDual
  /\ ParkedHC
  /\ ParkedGeo

NextCli ==
  \E k \in Exchanges :
    \/ cliDial(k)
    \/ cliExchangeWithConn(k)
    \/ cliSend(k)
    \/ cliCtxEnds(k)
    \/ cliSelectCtx(k)
    \/ cliSelectRecv(k)

SpecCli == InitCli /\ [][NextCli]_vars

\* the scheduler runs every goroutine that can take a step: a select with a
\* ready case and a send that can go through are eventually performed. The
\* upstream is under no obligation to answer.
FairCli ==
  /\ SpecCli
  /\ \A k \in Exchanges :
       /\ WF_vars(cliSelectCtx(k) \/ cliSelectRecv(k))
       /\ WF_vars(cliSend(k))

\* C33: once the context is done while the upstream exchange is pending,
\* client.ExchangeContext returns, and what it returns is the context's
\* error; a reply that arrives afterwards changes nothing of what was
\* returned, and the goroutine performing the exchange ends once the
\* exchange returns: its send never blocks.
C33_ContextEndsPendingExchange ==
  /\ \A k \in Exchanges :
       /\ ((cliPc[k] = "select" /\ cliCtx[k] # "") ~> cliPc[k] = "done")
       /\ (cliG[k] = "send" ~> cliG[k] = "done")
  /\ [][\A k \in Exchanges :
          /\ (cliPc[k] = "select" /\ cliPc'[k] = "done" /\ cliCh[k] = <<>>)
             => (cliCtx[k] # "" /\ cliRet'[k] = MsgResult(NilMsg, cliCtx[k]))
          /\ cliPc[k] = "done" => cliRet'[k] = cliRet[k]]_vars

\* ExchangeContext returned the deadline error while the exchange was
\* pending; the upstream's reply came afterwards, was sent into the buffer
\* and is read by nobody
C33_Witness ==
  \E k \in Exchanges :
    /\ cliPc[k] = "done"
    /\ cliRet[k] = MsgResult(NilMsg, "context deadline exceeded")
    /\ cliG[k] = "done"
    /\ cliConnClosed[k]
    /\ Len(cliCh[k]) = 1 /\ cliCh[k][1] = cliUp[k]

(***************************************************************************)
(* configMux: the readers of tunnel.proxies and the writer UpdateProxies.   *)
(***************************************************************************)
\* the functions that take configMux.RLock before they read tunnel.proxies:
\* match (tunnel.go lines 402-403) and matchScript (lines 462-463);
\* resolveMetadata (lines 218-221) and dialContextWithProxyAdapter, through
\* tunnel.Proxies() (lines 89-91), take no lock
TakesRLock(site) == site \in {"match", "matchScript"}

\* UpdateProxies line 100, configMux.Lock(): waits until nobody holds it
UpdateProxiesLock ==
  /\ upc = "call"
  /\ ~cmWriter /\ cmReaders = {}
  /\ cmWriter' = TRUE
  /\ upc' = "assign"
  /\ UNCHANGED <<cmReaders, pver, rdSite, rdPc, rdHeld, rdRaced, rdGot>>
  /\ UNCHANGED notLock

\* UpdateProxies lines 101-103: proxies = newProxies
UpdateProxiesAssign ==
  /\ upc = "assign"
  /\ pver' = pver + 1
  /\ upc' = "unlock"
  /\ UNCHANGED <<cmWriter, cmReaders, rdSite, rdPc, rdHeld, rdRaced, rdGot>>
  /\ UNCHANGED notLock

\* UpdateProxies line 104, configMux.Unlock(); another reload may follow
UpdateProxiesUnlock ==
  /\ upc = "unlock"
  /\ cmWriter' = FALSE
  /\ upc' = IF pver <= NumReloads THEN "call" ELSE "done"
  /\ UNCHANGED <<cmReaders, pver, rdSite, rdPc, rdHeld, rdRaced, rdGot>>
  /\ UNCHANGED notLock

\* match line 402 / matchScript line 462, configMux.RLock(): waits while the
\* lock is held for writing
RLock(r) ==
  /\ rdPc[r] = "start"
  /\ TakesRLock(rdSite[r])
  /\ ~cmWriter
  /\ cmReaders' = cmReaders \cup {r}
  /\ rdPc' = [rdPc EXCEPT ![r] = "read"]
  /\ UNCHANGED <<cmWriter, upc, pver, rdSite, rdHeld, rdRaced, rdGot>>
  /\ UNCHANGED notLock

\* the read of tunnel.proxies: resolveMetadata lines 218-221 (Direct and
\* Global mode), match lines 423-424, matchScript lines 474-478,
\* dialContextWithProxyAdapter line 137. A read that is not ordered with the
\* assignment in UpdateProxies is a data race: it may give the old or the
\* new proxy set
ReadProxies(r) ==
  /\ \/ rdPc[r] = "read"
     \/ rdPc[r] = "start" /\ ~TakesRLock(rdSite[r])
  /\ rdHeld' = [rdHeld EXCEPT ![r] = r \in cmReaders]
  /\ rdRaced' = [rdRaced EXCEPT ![r] = cmWriter]
  /\ \E v \in (IF upc = "assign" THEN {pver, pver + 1} ELSE {pver}) :
       rdGot' = [rdGot EXCEPT ![r] = v]
  /\ rdPc' = [rdPc EXCEPT ![r] = IF r \in cmReaders THEN "unlock" ELSE "done"]
  /\ UNCHANGED <<cmWriter, cmReaders, upc, pver, rdSite>>
  /\ UNCHANGED notLock

\* match line 403 / matchScript line 463, the deferred configMux.RUnlock()
RUnlock(r) ==
  /\ rdPc[r] = "unlock"
  /\ cmReaders' = cmReaders \ {r}
  /\ rdPc' = [rdPc EXCEPT ![r] = "done"]
  /\ UNCHANGED <<cmWriter, upc, pver, rdSite, rdHeld, rdRaced, rdGot>>
  /\ UNCHANGED notLock

InitLock ==
  /\ cmWriter = FALSE
  /\ cmReaders = {}
  /\ upc = "call"
  /\ pver = 1
  /\ rdSite \in [ProxyReaders -> ReadSites]
  /\ rdPc = [r \in ProxyReaders |-> "start"]
  /\ rdHeld = [r \in ProxyReaders |-> FALSE]
  /\ rdRaced = [r \in ProxyReaders |-> FALSE]
  /\ rdGot = [r \in ProxyReaders |-> 0]
  /\ ParkedUDP
  /\ ParkedTun
  /\ ParkedDNS
  /\ ParkedRip
  /\ ParkedBat
  /\ ParkedMode
  /\ ParkedPre
  /\ ParkedDoH
  /\ ParkedCli
  /\ ParkedTcp
  /\ ParkedDual
  /\ ParkedHC
  /\ ParkedGeo

NextLock ==
  \/ UpdateProxiesLock
  \/ UpdateProxiesAssign
  \/ UpdateProxiesUnlock
  \/ \E r \in ProxyReaders : RLock(r) \/ ReadProxies(r) \/ RUnlock(r)

SpecLock == InitLock /\ [][NextLock]_vars

\* task r has read the proxy set
HasRead(r) == rdPc[r] \in {"unlock", "done"}

\* C34: every read of the active proxy set made while choosing an outbound
\* (resolveMetadata in Direct and Global mode, match, matchScript, the DNS
\* transports' lookup of a named outbound) is made holding configMux for
\* reading, so none runs while UpdateProxies holds it for writing.
C34_ProxyReadsHoldReadLock ==
  \A r \in ProxyReaders :
    HasRead(r) => (rdHeld[r] /\ ~rdRaced[r])

\* the reads of match and matchScript are made holding the read lock and
\* never while UpdateProxies holds the write lock
LockedSitesReadUnderLock ==
  \A r \in ProxyReaders :
    (HasRead(r) /\ TakesRLock(rdSite[r])) => (rdHeld[r] /\ ~rdRaced[r])

(***************************************************************************)
(* handleTCPConn: one TCP flow from the queue to the end of its relay.      *)
(***************************************************************************)
\* mutant: nothing is deferred on entry
deferOnEntryNothing == <<>>

\* lines 333-335: the deferred conn.Close() of the inbound connection
deferOnEntry == <<"conn.Close">>

\* lines 373-375: the deferred remoteConn.Close()
deferAfterDial == <<"remoteConn.Close">>

\* the function returns: its deferred calls run, last registered first.
\* Closing a wrapper closes the connection it wraps (sniffing.go lines 50-52)
RECURSIVE runDeferred(_, _)
runDeferred(d, st) ==
  IF d = <<>> THEN st
  ELSE runDeferred(Tail(d),
         CASE Head(d) = "conn.Close" -> [st EXCEPT !.inb = TRUE]
           [] Head(d) = "cancel" -> [st EXCEPT !.cancelled = TRUE]
           [] Head(d) = "remoteConn.Close" -> [st EXCEPT !.remote = "closed"])

\* handleTCPConn of flow c returns on path, with d deferred
tcpReturn(c, path, d) ==
  LET st == runDeferred(d, [inb |-> inClosed[c], cancelled |-> hcancelled[c],
                            remote |-> remoteConn[c]])
  IN /\ inClosed' = [inClosed EXCEPT ![c] = st.inb]
     /\ hcancelled' = [hcancelled EXCEPT ![c] = st.cancelled]
     /\ remoteConn' = [remoteConn EXCEPT ![c] = st.remote]
     /\ hdefer' = [hdefer EXCEPT ![c] = <<>>]
     /\ hpath' = [hpath EXCEPT ![c] = path]
     /\ hpc' = [hpc EXCEPT ![c] = "done"]

\* lines 333-341: defer the close of the inbound connection; metadata that is
\* not valid ends the handling
tcpValid(c) ==
  /\ hpc[c] = "start"
  /\ \/ tcpReturn(c, "invalid", deferOnEntry)
     \/ /\ hdefer' = [hdefer EXCEPT ![c] = deferOnEntry]
        /\ hpc' = [hpc EXCEPT ![c] = "pre"]
        /\ UNCHANGED <<inClosed, hcancelled, remoteConn, hpath>>
  /\ UNCHANGED <<sniffing, hwrap, hproxy>>
  /\ UNCHANGED notTcp

\* lines 343-346: preHandleMetadata; an error ends the handling
tcpPreHandle(c) ==
  /\ hpc[c] = "pre"
  /\ \/ tcpReturn(c, "preHandle", hdefer[c])
     \/ /\ hpc' = [hpc EXCEPT ![c] = "resolve"]
        /\ UNCHANGED <<hdefer, inClosed, hcancelled, remoteConn, hpath>>
  /\ UNCHANGED <<sniffing, hwrap, hproxy>>
  /\ UNCHANGED notTcp

\* lines 348-357: resolveMetadata; an error ends the handling, otherwise the
\* dial context is made and its cancel deferred
tcpResolve(c) ==
  /\ hpc[c] = "resolve"
  /\ \/ /\ tcpReturn(c, "dispatch", hdefer[c])
        /\ UNCHANGED hproxy
     \/ /\ \E k \in {"proxy", "REJECT", "mitm"} :
             hproxy' = [hproxy EXCEPT ![c] = k]
        /\ hdefer' = [hdefer EXCEPT ![c] = <<"cancel">> \o @]
        /\ hpc' = [hpc EXCEPT ![c] = "dial"]
        /\ UNCHANGED <<inClosed, hcancelled, remoteConn, hpath>>
  /\ UNCHANGED <<sniffing, hwrap>>
  /\ UNCHANGED notTcp

\* lines 366-371: the wrappers put around a dialed connection
tcpWrappers(k) ==
  IF k # "REJECT" /\ k # "mitm"
    THEN (IF sniffing THEN <<"sniffing">> ELSE <<>>) \o <<"tracker">>
    ELSE <<>>

\* lines 357-375: proxy.DialContext; an error ends the handling with no
\* remote connection, otherwise the connection is wrapped and its close
\* deferred
tcpDial(c) ==
  /\ hpc[c] = "dial"
  /\ \/ /\ tcpReturn(c, "dial", hdefer[c])
        /\ UNCHANGED hwrap
     \/ /\ remoteConn' = [remoteConn EXCEPT ![c] = "open"]
        /\ hwrap' = [hwrap EXCEPT ![c] = tcpWrappers(hproxy[c])]
        /\ hdefer' = [hdefer EXCEPT ![c] = deferAfterDial \o @]
        /\ hpc' = [hpc EXCEPT ![c] = "relay"]
        /\ UNCHANGED <<inClosed, hcancelled, hpath>>
  /\ UNCHANGED <<sniffing, hproxy>>
  /\ UNCHANGED notTcp

\* lines 377-394: handleSocket relays until either side ends, then
\* handleTCPConn returns
tcpRelay(c) ==
  /\ hpc[c] = "relay"
  /\ tcpReturn(c, "relay", hdefer[c])
  /\ UNCHANGED <<sniffing, hwrap, hproxy>>
  /\ UNCHANGED notTcp

InitTcp ==
  /\ sniffing \in BOOLEAN
  /\ hpc = [c \in Conns |-> "start"]
  /\ hdefer = [c \in Conns |-> <<>>]
  /\ inClosed = [c \in Conns |-> FALSE]
  /\ remoteConn = [c \in Conns |-> "none"]
  /\ hwrap = [c \in Conns |-> <<>>]
  /\ hproxy = [c \in Conns |-> ""]
  /\ hcancelled = [c \in Conns |-> FALSE]
  /\ hpath = [c \in Conns |-> ""]
  /\ ParkedUDP
  /\ ParkedTun
  /\ ParkedDNS
  /\ ParkedRip
  /\ ParkedBat
  /\ ParkedMode
  /\ ParkedPre
  /\ ParkedDoH
  /\ ParkedCli
  /\ ParkedLock
  /\ ParkedDual
  /\ ParkedHC
  /\ ParkedGeo

NextTcp ==
  \E c \in Conns :
    \/ tcpValid(c)
    \/ tcpPreHandle(c)
    \/ tcpResolve(c)
    \/ tcpDial(c)
    \/ tcpRelay(c)

SpecTcp == InitTcp /\ [][NextTcp]_vars

RacerName(x) == IF x THEN "ipv6" ELSE "ipv4"

\* lines 228-231 and 281-282: SplitHostPort; an error is returned at once,
\* with the deferred close(returned); otherwise both racers are started
dualStart ==
  /\ dpc = "start"
  /\ \/ /\ dret' = DialReturn("", "missing port in address")
        /\ dpc' = "done"
        /\ returned' = TRUE
        /\ UNCHANGED rcPc
     \/ /\ dpc' = "loop"
        /\ rcPc' = [x \in Racers |-> "resolve"]
        /\ UNCHANGED <<dret, returned>>
  /\ UNCHANGED <<ddirect, rcRes, primary, fallbackRes, dorder>>
  /\ UNCHANGED notDual

\* lines 258-274 in racer x: resolve the host for the racer's family; with
\* opt.direct the plain resolver is asked, else the proxy-server resolver
racerResolve(x) ==
  /\ rcPc[x] = "resolve"
  /\ \/ /\ rcRes' = [rcRes EXCEPT ![x].error =
                        (IF ddirect THEN "Resolve" ELSE "ResolveProxyServerHost")
                        \o " " \o RacerName(x) \o " failed"]
        /\ rcPc' = [rcPc EXCEPT ![x] = "deliver"]
     \/ /\ rcRes' = [rcRes EXCEPT ![x].resolved = TRUE]
        /\ rcPc' = [rcPc EXCEPT ![x] = "dial"]
  /\ UNCHANGED <<ddirect, dpc, returned, primary, fallbackRes, dret, dorder>>
  /\ UNCHANGED notDual

\* line 278 in racer x: dialContext returns a connection or an error
racerDial(x) ==
  /\ rcPc[x] = "dial"
  /\ \/ rcRes' = [rcRes EXCEPT ![x].conn = "open"]
     \/ rcRes' = [rcRes EXCEPT ![x].error = "dial " \o RacerName(x) \o " failed"]
  /\ rcPc' = [rcPc EXCEPT ![x] = "deliver"]
  /\ UNCHANGED <<ddirect, dpc, returned, primary, fallbackRes, dret, dorder>>
  /\ UNCHANGED notDual

\* lines 294-302: the error returned once both racers have failed
bothFailed(p, f) ==
  IF p.resolved THEN p.error
  ELSE IF f.resolved THEN f.error
  ELSE p.error

\* lines 246-247 in racer x and 284-303 in the caller: the racer's deferred
\* select sends its result on the unbuffered channel results, the range loop
\* receives it and runs its body
racerSend(x) ==
  /\ rcPc[x] = "deliver"
  /\ dpc = "loop"
  /\ rcPc' = [rcPc EXCEPT ![x] = "done"]
  /\ dorder' = Append(dorder, x)
  /\ LET res == rcRes[x]
         p == IF ~res.ipv6 THEN res ELSE primary
         f == IF res.ipv6 THEN res ELSE fallbackRes
     IN IF res.error = NoErr
          THEN /\ dret' = DialReturn(RacerName(x), NoErr)
               /\ dpc' = "done"
               /\ returned' = TRUE
               /\ UNCHANGED <<primary, fallbackRes>>
          ELSE /\ primary' = p
               /\ fallbackRes' = f
               /\ IF p.done /\ f.done
                    THEN /\ dret' = DialReturn("", bothFailed(p, f))
                         /\ dpc' = "done"
                         /\ returned' = TRUE
                    ELSE UNCHANGED <<dret, dpc, returned>>
  /\ UNCHANGED <<ddirect, rcRes>>
  /\ UNCHANGED notDual

\* mutant: the racer's deferred call only sends
returnedReadyNever == FALSE

\* line 248, case <-returned: ready once dualStackDialContext has returned
returnedReady == returned

\* lines 248-251 in racer x: the caller has returned, the racer closes the
\* connection it holds, if any
racerReturned(x) ==
  /\ rcPc[x] = "deliver"
  /\ returnedReady
  /\ rcRes' = [rcRes EXCEPT ![x].conn = IF @ # "none" THEN "closed" ELSE @]
  /\ rcPc' = [rcPc EXCEPT ![x] = "done"]
  /\ UNCHANGED <<ddirect, dpc, returned, primary, fallbackRes, dret, dorder>>
  /\ UNCHANGED notDual

InitDual ==
  /\ ddirect \in BOOLEAN
  /\ dpc = "start"
  /\ returned = FALSE
  /\ rcPc = [x \in Racers |-> "off"]
  /\ rcRes = [x \in Racers |-> DialResult("none", NoErr, FALSE, x, TRUE)]
  /\ primary = NoDialResult
  /\ fallbackRes = NoDialResult
  /\ dret = DialReturn("", NoErr)
  /\ dorder = <<>>
  /\ ParkedUDP
  /\ ParkedTun
  /\ ParkedDNS
  /\ ParkedRip
  /\ ParkedBat
  /\ ParkedMode
  /\ ParkedPre
  /\ ParkedDoH
  /\ ParkedCli
  /\ ParkedLock
  /\ ParkedTcp
  /\ ParkedHC
  /\ ParkedGeo

NextDual ==
  \/ dualStart
  \/ \E x \in Racers :
       \/ racerResolve(x)
       \/ racerDial(x)
       \/ racerSend(x)
       \/ racerReturned(x)

SpecDual == InitDual /\ [][NextDual]_vars

\* the scheduler runs every goroutine that can take a step: a racer whose
\* send can be received or that can see the channel returned closed goes on
FairDual ==
  /\ SpecDual
  /\ \A x \in Racers : WF_vars(racerSend(x) \/ racerReturned(x))

\* the racers whose result, as received, held a connection
Succeeded == {i \in 1..Len(dorder) : rcRes[dorder[i]].error = NoErr}

\* C37: dualStackDialContext returns the first connection either racer
\* hands it; a connection the other racer established and could not hand
\* over before the return is closed, and neither racer blocks forever. When
\* both racers fail it returns the IPv4 racer's error if IPv4 resolution
\* succeeded, otherwise the IPv6 racer's error if IPv6 resolution succeeded,
\* otherwise the IPv4 racer's error.
C37_FirstConnectionWinsOtherClosed ==
  /\ [](dpc = "done" /\ dret.err = NoErr =>
          /\ Succeeded = {Len(dorder)}
          /\ dret.by = RacerName(dorder[Len(dorder)])
          /\ rcRes[dorder[Len(dorder)]].conn = "open"
          /\ \A x \in Racers :
               (rcPc[x] = "done" /\ RacerName(x) # dret.by) =>
                 rcRes[x].conn # "open")
  /\ [](dpc = "done" /\ dret.err # NoErr /\ dorder # <<>> =>
          /\ \A x \in Racers : rcPc[x] = "done" /\ rcRes[x].error # NoErr
          /\ dret.by = ""
          /\ dret.err = IF rcRes[FALSE].resolved THEN rcRes[FALSE].error
                        ELSE IF rcRes[TRUE].resolved THEN rcRes[TRUE].error
                        ELSE rcRes[FALSE].error)
  /\ \A x \in Racers : rcPc[x] = "deliver" ~> rcPc[x] = "done"
  /\ (\A x \in Racers : rcPc[x] \in {"deliver", "done"}) ~> dpc = "done"

\* the IPv6 racer's connection was returned; the IPv4 racer established one
\* too, found the function returned and closed it
C37_Witness ==
  /\ dpc = "done" /\ dret = DialReturn("ipv6", NoErr)
  /\ rcPc[FALSE] = "done" /\ rcRes[FALSE].error = NoErr
  /\ rcRes[FALSE].conn = "closed"
  /\ rcRes[TRUE].conn = "open"

(***************************************************************************)
(* provider.HealthCheck: process() and close().                             *)
(***************************************************************************)
\* process() lines 33-35: if hc.running.Load() { return }
processLoad(p) ==
  /\ ppc[p] = "call"
  /\ ppc' = [ppc EXCEPT ![p] = IF running THEN "returned" ELSE "store"]
  /\ UNCHANGED <<running, hcDone, cpc, nchecks, lateChecks>>
  /\ UNCHANGED notHC

\* process() lines 36-38: hc.running.Store(true), then the ticker is made
\* and the loop entered
processStore(p) ==
  /\ ppc[p] = "store"
  /\ running' = TRUE
  /\ ppc' = [ppc EXCEPT ![p] = "loop"]
  /\ UNCHANGED <<hcDone, cpc, nchecks, lateChecks>>
  /\ UNCHANGED notHC

\* process() lines 49-53: the select takes case <-ticker.C, a periodic check
processTick(p) ==
  /\ ppc[p] = "loop"
  /\ nchecks[p] < MaxChecks
  /\ nchecks' = [nchecks EXCEPT ![p] = @ + 1]
  /\ lateChecks' = IF cpc = "returned" THEN 1 ELSE lateChecks
  /\ UNCHANGED <<running, hcDone, ppc, cpc>>
  /\ UNCHANGED notHC

\* process() lines 54-56: the select takes case <-hc.done, the loop ends
processDone(p) ==
  /\ ppc[p] = "loop"
  /\ hcDone > 0
  /\ hcDone' = hcDone - 1
  /\ ppc' = [ppc EXCEPT ![p] = "stopped"]
  /\ UNCHANGED <<running, cpc, nchecks, lateChecks>>
  /\ UNCHANGED notHC

\* close() lines 93-95: if !hc.running.Load() { return }
closeLoad ==
  /\ cpc = "call"
  /\ cpc' = IF running THEN "store" ELSE "skipped"
  /\ UNCHANGED <<running, hcDone, ppc, nchecks, lateChecks>>
  /\ UNCHANGED notHC

\* close() line 96: hc.running.Store(false)
closeStore ==
  /\ cpc = "store"
  /\ running' = FALSE
  /\ cpc' = "send"
  /\ UNCHANGED <<hcDone, ppc, nchecks, lateChecks>>
  /\ UNCHANGED notHC

\* close() line 97: hc.done <- struct{}{} on the channel of capacity 1 made
\* at line 108, then close() returns
closeSend ==
  /\ cpc = "send"
  /\ hcDone < 1
  /\ hcDone' = hcDone + 1
  /\ cpc' = "returned"
  /\ UNCHANGED <<running, ppc, nchecks, lateChecks>>
  /\ UNCHANGED notHC

InitHC ==
  /\ running = FALSE
  /\ hcDone = 0
  /\ ppc = [p \in ProcessCalls |-> "call"]
  /\ cpc = "call"
  /\ nchecks = [p \in ProcessCalls |-> 0]
  /\ lateChecks = 0
  /\ ParkedUDP
  /\ ParkedTun
  /\ ParkedDNS
  /\ ParkedRip
  /\ ParkedBat
  /\ ParkedMode
  /\ ParkedPre
  /\ ParkedDoH
  /\ ParkedCli
  /\ ParkedLock
  /\ ParkedTcp
  /\ ParkedDual
  /\ ParkedGeo

NextHC ==
  \/ \E p \in ProcessCalls :
       \/ processLoad(p)
       \/ processStore(p)
       \/ processTick(p)
       \/ processDone(p)
  \/ closeLoad
  \/ closeStore
  \/ closeSend

SpecHC == InitHC /\ [][NextHC]_vars

\* the process() calls that are in their loop
ActiveLoops == {p \in ProcessCalls : ppc[p] = "loop"}

\* at most one periodic loop is active
OneLoopAtMost == Cardinality(ActiveLoops) <= 1

\* no periodic check was performed after close() had returned
NoCheckAfterClose == lateChecks = 0

\* C38: for one HealthCheck at most one periodic loop is active at any time,
\* for every interleaving of process() and close() calls, and after close()
\* has returned on a running check no further periodic check is performed.
C38_AtMostOneLoop == OneLoopAtMost /\ NoCheckAfterClose

(***************************************************************************)
(* route.updateGeoDatabases: the handler and the update it starts.          *)
(***************************************************************************)
\* the updates that have started and not ended
RunningUpdates == {r \in Requests : upd[r] \in {"running", "defer"}}

\* line 28, updateGeoMux.Lock()
geoLock(r) ==
  /\ gpc[r] = "call"
  /\ updateGeoMux = Nil
  /\ updateGeoMux' = r
  /\ gpc' = [gpc EXCEPT ![r] = "locked"]
  /\ UNCHANGED <<updatingGeo, gresp, upd, gout, busyAtCheck>>
  /\ UNCHANGED notGeo

\* lines 30-61: with the flag set, unlock and answer 400 "updating...";
\* otherwise set the flag, unlock, start the update and answer 204
geoCheck(r) ==
  /\ gpc[r] = "locked"
  /\ busyAtCheck' = [busyAtCheck EXCEPT ![r] = RunningUpdates # {}]
  /\ updateGeoMux' = Nil
  /\ gpc' = [gpc EXCEPT ![r] = "done"]
  /\ IF updatingGeo
       THEN /\ gresp' = [gresp EXCEPT ![r] = 400]
            /\ UNCHANGED <<updatingGeo, upd>>
       ELSE /\ updatingGeo' = TRUE
            /\ upd' = [upd EXCEPT ![r] = "running"]
            /\ gresp' = [gresp EXCEPT ![r] = 204]
  /\ UNCHANGED gout
  /\ UNCHANGED notGeo

\* lines 46-60 in the goroutine: config.UpdateGeoDatabases, ParseWithPath
\* and ApplyConfig; the first two may fail
geoUpdate(r) ==
  /\ upd[r] = "running"
  /\ \E o \in {"ok", "update failed", "parse failed"} :
       gout' = [gout EXCEPT ![r] = o]
  /\ upd' = [upd EXCEPT ![r] = "defer"]
  /\ UNCHANGED <<updatingGeo, updateGeoMux, gpc, gresp, busyAtCheck>>
  /\ UNCHANGED notGeo

\* mutant: the flag is cleared only when the update succeeded
flagAfterUpdateOnFailureStays(o) == o # "ok"

\* lines 41-43, the deferred function: updatingGeo = false, however the
\* update went
flagAfterUpdate(o) == FALSE

\* lines 41-43: the deferred function runs and the goroutine ends. The
\* assignment is made without updateGeoMux
geoClear(r) ==
  /\ upd[r] = "defer"
  /\ updatingGeo' = flagAfterUpdate(gout[r])
  /\ upd' = [upd EXCEPT ![r] = "ended"]
  /\ UNCHANGED <<updateGeoMux, gpc, gresp, gout, busyAtCheck>>
  /\ UNCHANGED notGeo

InitGeo ==
  /\ updatingGeo = FALSE
  /\ updateGeoMux = Nil
  /\ gpc = [r \in Requests |-> "call"]
  /\ gresp = [r \in Requests |-> 0]
  /\ upd = [r \in Requests |-> "none"]
  /\ gout = [r \in Requests |-> ""]
  /\ busyAtCheck = [r \in Requests |-> FALSE]
  /\ ParkedUDP
  /\ ParkedTun
  /\ ParkedDNS
  /\ ParkedRip
  /\ ParkedBat
  /\ ParkedMode
  /\ ParkedPre
  /\ ParkedDoH
  /\ ParkedCli
  /\ ParkedLock
  /\ ParkedTcp
  /\ ParkedDual
  /\ ParkedHC

NextGeo ==
  \E r \in Requests :
    \/ geoLock(r)
    \/ geoCheck(r)
    \/ geoUpdate(r)
    \/ geoClear(r)

SpecGeo == InitGeo /\ [][NextGeo]_vars

\* C39: at most one geo-database update runs at a time: a request that
\* arrives while an update is running is answered 400 "updating..." and
\* starts no update; once an update has ended, with success or failure, the
\* flag is clear, so a request that finds no update running starts one and
\* is answered 204.
C39_OneGeoUpdateAtATime ==
  /\ Cardinality(RunningUpdates) <= 1
  /\ updatingGeo <=> RunningUpdates # {}
  /\ \A r \in Requests :
       gpc[r] = "done" =>
         IF busyAtCheck[r]
           THEN gresp[r] = 400 /\ upd[r] = "none"
           ELSE gresp[r] = 204 /\ upd[r] # "none"

\* an update failed and ended, a later request started a second update, and
\* a request that arrived while that one was running was refused
C39_Witness ==
  \E a, b, c \in Requests :
    /\ upd[a] = "ended" /\ gout[a] = "update failed"
    /\ upd[b] = "running" /\ gresp[b] = 204
    /\ gresp[c] = 400 /\ upd[c] = "none" /\ busyAtCheck[c]
    /\ updatingGeo

====
